---- MODULE Spec2Model ----
(***************************************************************************)
(* Crawl core of crawle-trix: the scope engine (ScopedSeed.isIncluded),    *)
(* the link/sitemap enqueue path (queueInScopeUrls, queueUrl), the page    *)
(* workers (PageWorker.runLoop, initPage, timedCrawlPage), the page        *)
(* lifecycle (loadPage, doPostLoadActions, pageFinished) and the shared    *)
(* crawl store (RedisCrawlState), whose source file util/state.ts is not   *)
(* part of the tree and is modelled from section 4.2 of the specification. *)
(***************************************************************************)
EXTENDS Integers, Sequences, FiniteSets, TLC

\* ------------------------------------------------------------------------
\* Bounds of the model
\* ------------------------------------------------------------------------
\* number of PageWorkers created by runWorkers (params.workers)
NumWorkers == 2
\* queueUrl calls that may be in flight (awaiting the store) at one time
MaxCalls == 2
\* number of page locks whose deadline passes during a run
MaxExpire == 1
\* number of <url> events the sitemap reader emits in one ingestion
MaxSitemapUrls == 1
\* number of addExclusion control messages an operator posts
MaxExclusions == 1
\* largest depth / extraHops argument drawn for a direct isIncluded call
MaxArg == 2

Workers == 1..NumWorkers

\* ------------------------------------------------------------------------
\* LoadState (util/state.ts, used by crawler.ts): an ordered enum
\* ------------------------------------------------------------------------
NONE == 0
CONTENT_LOADED == 1
FULL_PAGE_LOADED == 2
EXTRACTION_DONE == 3
BEHAVIORS_DONE == 4

\* ------------------------------------------------------------------------
\* URLs.  A URL string is abstracted to its scheme, the page it names
\* (origin + path + query) and whether it carries a #fragment.
\* ------------------------------------------------------------------------
Pages == {"a", "c", "x"}
\* origin of a page: a, c live on the seed's host, x on another host
originOf(page) == IF page = "x" THEN "other" ELSE "s"

Url(scheme, page, frag) == [scheme |-> scheme, page |-> page, frag |-> frag]
HttpUrls == {Url("http", p, f) : p \in Pages, f \in BOOLEAN}
\* what a page script may hand to __addLink: any http URL, or a non-http one
RawUrls == HttpUrls \cup {Url("ftp", "a", FALSE)}
NormUrls == {u \in HttpUrls : ~u.frag}
NoUrl == [scheme |-> "none", page |-> "none", frag |-> FALSE]

\* A RegExp is abstracted to the set of URL strings it matches.
RxTest(rx, url) == url \in rx
RxPages(ps) == {u \in HttpUrls : u.page \in ps}

\* ScopedSeed.parseUrl: null unless the protocol is http: or https:
parseUrl(url) ==
    IF url.scheme \in {"http", "https"} THEN url ELSE NoUrl

\* ScopedSeed.isAtMaxDepth
isAtMaxDepth_depthOnly(seed, depth, extraHops) ==
    depth >= seed.maxDepth

isAtMaxDepth(seed, depth, extraHops) ==
    depth >= seed.maxDepth /\ extraHops >= seed.maxExtraHops

Reject == [ok |-> FALSE, url |-> NoUrl, isOOS |-> FALSE]
Accept(url, isOOS) == [ok |-> TRUE, url |-> url, isOOS |-> isOOS]

\* the scope test of isIncluded: depth <= maxDepth and some include matches
inScopeOf_anyDepth(seed, url, depth) ==
    \E i \in 1..Len(seed.include) : RxTest(seed.include[i], url)

inScopeOf(seed, url, depth) ==
    /\ depth <= seed.maxDepth
    /\ \E i \in 1..Len(seed.include) : RxTest(seed.include[i], url)

\* the extra-hop test of isIncluded, as the code spells it
\* (maxExtraHops is used as a truth value: 0 is false)
oosAllowed_noZeroTest(seed, extraHops, noOOS) ==
    ~noOOS /\ extraHops <= seed.maxExtraHops

oosAllowed_lt(seed, extraHops, noOOS) ==
    ~noOOS /\ seed.maxExtraHops # 0 /\ extraHops <= seed.maxExtraHops + 1

oosAllowed(seed, extraHops, noOOS) ==
    ~noOOS /\ seed.maxExtraHops # 0 /\ extraHops <= seed.maxExtraHops

\* the exclusion test of isIncluded
isExcluded_never(seed, url) == FALSE

isExcluded(seed, url) ==
    \E i \in 1..Len(seed.exclude) : RxTest(seed.exclude[i], url)

\* the hash stripping of isIncluded: urlParsed.hash = "" unless allowHash
stripHash(seed, url) ==
    IF seed.allowHash THEN url ELSE [url EXCEPT !.frag = FALSE]

\* ScopedSeed.isIncluded
isIncluded(seed, rawUrl, depth, extraHops, noOOS) ==
    LET urlParsed == parseUrl(rawUrl) IN
    IF urlParsed = NoUrl THEN Reject
    ELSE LET url == stripHash(seed, urlParsed) IN
         IF url = seed.url THEN Accept(url, FALSE)
         ELSE LET inScope == inScopeOf(seed, url, depth) IN
              IF ~inScope /\ ~oosAllowed(seed, extraHops, noOOS) THEN Reject
              ELSE IF isExcluded(seed, url) THEN Reject
              ELSE Accept(url, ~inScope)

\* ------------------------------------------------------------------------
\* State
\* ------------------------------------------------------------------------
VARIABLES
    seeds,        \* Crawler.seeds: the seed table (append-only)
    pageLimit,    \* Crawler.pageLimit
    limitHit,     \* Crawler.limitHit
    interrupted,  \* Crawler.interrupted
    queue,        \* store: queued entries, in insertion order
    pending,      \* store: in-progress entries with their lock
    seen,         \* store: the seen-set used for deduplication
    done,         \* store: URLs marked finished
    failed,       \* store: URLs marked failed
    excluded,     \* store: URLs marked excluded
    calls,        \* queueUrl calls answered LIMIT_HIT that have not resumed
    cpc,          \* position of Crawler.crawl / _addInitialSeeds
    sitemap,      \* the sitemap reader of parseSitemap
    pc,           \* position of each PageWorker
    data,         \* the PageState each PageWorker carries
    hist,         \* history: what has been enqueued, dequeued and returned
    env,          \* outside events of this run: lock expiries, exclusions, faults
    scope,        \* a direct call of isIncluded and its result
    proc,         \* the crawler process: run(), signal handler, exit
    win,          \* one PageWorker's browser window
    ckpt,         \* serializeConfig: the checkpoint files of this process
    arch,         \* the archive directory and the downloads writing to it
    links,        \* an __addLink call of a page whose callback has not run
    ingest        \* _addInitialSeeds over several seeds: its sitemap readers

vars == <<seeds, pageLimit, limitHit, interrupted, queue, pending, seen, done,
          failed, excluded, calls, cpc, sitemap, pc, data, hist, env, scope,
          proc, win, ckpt, arch, links, ingest>>

storeVars == <<queue, pending, seen, done, failed, excluded>>

\* largest configured seed depth / extra hops / page limit that Init draws
MaxDepthCfg == 1
MaxHopsCfg == 1
PageLimitCfg == 2

\* a ScopedSeed, reduced to the fields the scope engine reads
Seed(url, include, exclude, maxDepth, maxExtraHops, allowHash, hasSitemap) ==
    [url |-> url, include |-> include, exclude |-> exclude,
     maxDepth |-> maxDepth, maxExtraHops |-> maxExtraHops,
     allowHash |-> allowHash, sitemap |-> hasSitemap]

SeedUrl == Url("http", "a", FALSE)
\* a host-scope include list for the seed's origin: ^https?://s/
HostInclude == <<RxPages({p \in Pages : originOf(p) = "s"})>>
\* a custom include list that matches only the seed page
CustomInclude == <<RxPages({"a"})>>
\* exclusion regexes an operator may add at run time
Exclusions == {RxPages({"c"})}

NoData == [url |-> NoUrl, seedId |-> 0, depth |-> 0, extraHops |-> 0,
           loadState |-> NONE, isHTMLPage |-> FALSE, skipBehaviors |-> FALSE,
           timedOut |-> FALSE, behaviorLog |-> "none", fullLoaded |-> FALSE]

NoScope == [called |-> FALSE, seed |-> 0, url |-> NoUrl, depth |-> 0,
            extraHops |-> 0, noOOS |-> FALSE, res |-> Reject]

\* ------------------------------------------------------------------------
\* RedisCrawlState (util/state.ts): the shared store
\* ------------------------------------------------------------------------
ADDED == "ADDED"
LIMIT_HIT == "LIMIT_HIT"
DUPE_URL == "DUPE_URL"

Entry(url, seedId, depth, extraHops) ==
    [url |-> url, seedId |-> seedId, depth |-> depth, extraHops |-> extraHops]

\* addToQueue: check the seen-set, check the size, then insert
addToQueue(entry, limit) ==
    IF entry.url \in seen THEN DUPE_URL
    ELSE IF limit > 0 /\ Cardinality(seen) >= limit THEN LIMIT_HIT
    ELSE ADDED

queueSize == Len(queue)
numPending == Cardinality(pending)

\* index of the entry nextFromQueue serves: lowest depth first, FIFO within
queueHead ==
    CHOOSE i \in 1..Len(queue) :
        /\ \A j \in 1..Len(queue) : queue[i].depth <= queue[j].depth
        /\ \A j \in 1..(i - 1) : queue[j].depth > queue[i].depth

removeAt(s, i) == SubSeq(s, 1, i - 1) \o SubSeq(s, i + 1, Len(s))

Lock(e, w) == [url |-> e.url, seedId |-> e.seedId, depth |-> e.depth,
               extraHops |-> e.extraHops, owner |-> w, expired |-> FALSE]

\* the locks nextFromQueue may take over: those past their deadline
reclaimable_any(p) == TRUE

reclaimable_never(p) == FALSE

reclaimable(p) == p.expired

\* the lock of url that worker w owns, if any
ownLock(url, w) == {p \in pending : p.url = url /\ p.owner = w}

\* ------------------------------------------------------------------------
\* Crawler.queueInScopeUrls / getScope / queueUrl (services/crawler.ts)
\* ------------------------------------------------------------------------
\* getScope: this.seeds[seedId].isIncluded(...)  (seed ids are 1-based here)
getScope(seedId, url, depth, extraHops, noOOS) ==
    isIncluded(seeds[seedId], url, depth, extraHops, noOOS)

\* the extraHops a child is queued with
childExtraHops_always(isOOS, extraHops, newExtraHops) == newExtraHops

childExtraHops(isOOS, extraHops, newExtraHops) ==
    IF isOOS THEN newExtraHops ELSE extraHops

\* the extraHops queueInScopeUrls hands to the scope check
scopeExtraHops(extraHops) == extraHops + 1

\* the depth of a child
childDepth_same(depth) == depth

childDepth(depth) == depth + 1

\* the URL string handed on to queueUrl: the normalized one isIncluded returns
queuedUrl_raw(possibleUrl, res) == possibleUrl

queuedUrl(possibleUrl, res) == res.url

\* queueInScopeUrls for one candidate URL: the arguments of the queueUrl call
\* it makes, or ok = FALSE when the scope check rejects the URL; scope is
\* what it hands to getScope
queueInScopeUrls(seedId, possibleUrl, depth, extraHops, noOOS) ==
    LET newDepth == childDepth(depth)
        newExtraHops == scopeExtraHops(extraHops)
        res == getScope(seedId, possibleUrl, newDepth, newExtraHops, noOOS)
    IN  [ok |-> res.ok,
         url |-> queuedUrl(possibleUrl, res),
         seedId |-> seedId,
         depth |-> newDepth,
         extraHops |-> childExtraHops(res.isOOS, extraHops, newExtraHops),
         isOOS |-> res.isOOS,
         scope |-> [depth |-> newDepth, extraHops |-> newExtraHops,
                    noOOS |-> noOOS]]

\* queueUrl, first statement: return false at once when limitHit is set
queueUrlProceeds(flag) == ~flag

\* the page limit queueUrl hands to addToQueue
queueUrlLimit_none(limit) == 0

queueUrlLimit(limit) == limit

\* queueUrl, the switch on addToQueue's answer: the new value of limitHit
limitHitAfter_unset(result, flag) == flag

limitHitAfter(result, flag) == flag \/ result = LIMIT_HIT

\* history of an enqueued URL: the caller (seed, sitemap or link), the
\* depth and extraHops of the page the link was found on, the isOOS answer
\* of the scope check, and the depth and extraHops it was queued with
Origin(src, pdepth, phops, isOOS, depth, extraHops) ==
    [src |-> src, pdepth |-> pdepth, phops |-> phops, isOOS |-> isOOS,
     depth |-> depth, extraHops |-> extraHops]
NoOrigin == Origin("none", 0, 0, FALSE, 0, 0)

\* queueUrl(seedId, url, depth, extraHops) up to the store's answer.  The
\* step is taken when the store executes addToQueue, which is atomic; the
\* test of limitHit precedes it.  An answer of LIMIT_HIT leaves the call
\* waiting to resume (queueUrlReturn); ADDED and DUPE_URL only log.
queueUrl(seedId, url, depth, extraHops, src, pdepth, phops, isOOS) ==
    IF ~queueUrlProceeds(limitHit)
    THEN UNCHANGED <<queue, seen, calls, hist>>
    ELSE LET e == Entry(url, seedId, depth, extraHops)
             r == addToQueue(e, queueUrlLimit(pageLimit))
         IN  /\ r = LIMIT_HIT => calls < MaxCalls
             /\ calls' = IF r = LIMIT_HIT THEN calls + 1 ELSE calls
             /\ IF r = ADDED
                THEN /\ queue' = Append(queue, e)
                     /\ seen' = seen \cup {e.url}
                     /\ hist' = [hist EXCEPT
                                   !.enq[e.url] = @ + 1,
                                   !.excl[e.url] = seeds[seedId].exclude,
                                   !.origin[e.url] =
                                       Origin(src, pdepth, phops, isOOS,
                                              depth, extraHops)]
                ELSE /\ UNCHANGED <<queue, seen>>
                     /\ hist' = [hist EXCEPT
                                   !.limitAnswered = @ \/ r = LIMIT_HIT]

\* queueUrl resumes with the answer LIMIT_HIT
queueUrlReturn ==
    /\ calls > 0
    /\ calls' = calls - 1
    /\ limitHit' = limitHitAfter(LIMIT_HIT, limitHit)
    /\ UNCHANGED <<seeds, pageLimit, interrupted, storeVars, cpc, sitemap,
                   pc, data, hist, env, scope,
                   proc, win, ckpt, arch, links, ingest>>

\* ------------------------------------------------------------------------
\* Crawler.crawl / _addInitialSeeds / parseSitemap
\* the "end" events one sitemap reader emits
MaxEnds == 2

\* parseSitemap before the sitemap is fetched: no event seen, finished
\* unset, markSitemapDone not called (marks counts its calls, ends the
\* "end" events, early notes that the promise resolved before the end,
\* chk the arguments of the last scope check made for a sitemap URL)
NoSitemap == [state |-> "idle", count |-> 0, finished |-> FALSE,
              ends |-> 0, marks |-> 0, early |-> FALSE,
              chk |-> [depth |-> 0, extraHops |-> 0, noOOS |-> FALSE]]

\* number of seeds of a crawl that is started with several seeds
NumSeeds == 2

\* _addInitialSeeds over several seeds before it starts: the index i of its
\* loop, the store's sitemap-done flag, the state of the sitemap reader
\* parseSitemap made for each seed and the "url" events each has emitted
NoIngest == [i |-> 1, done |-> FALSE,
             reader |-> [s \in 1..NumSeeds |-> "idle"],
             count |-> [s \in 1..NumSeeds |-> 0]]

\* ------------------------------------------------------------------------
\* _addInitialSeeds: await queueUrl(i, seed.url, 0, 0); break when it
\* returns false with limitHit set, else parseSitemap(seed, i)
addInitialSeeds ==
    /\ cpc = "addSeed"
    /\ LET r == addToQueue(Entry(seeds[1].url, 1, 0, 0),
                           queueUrlLimit(pageLimit))
           proceeds == queueUrlProceeds(limitHit)
           hit == limitHitAfter(IF proceeds THEN r ELSE DUPE_URL, limitHit)
       IN  /\ IF proceeds /\ r = ADDED
              THEN /\ queue' = Append(queue, Entry(seeds[1].url, 1, 0, 0))
                   /\ seen' = seen \cup {seeds[1].url}
                   /\ hist' = [hist EXCEPT
                                 !.enq[seeds[1].url] = @ + 1,
                                 !.origin[seeds[1].url] =
                                     Origin("seed", 0, 0, FALSE, 0, 0)]
              ELSE /\ UNCHANGED <<queue, seen>>
                   /\ hist' = [hist EXCEPT
                                 !.limitAnswered =
                                     @ \/ (proceeds /\ r = LIMIT_HIT)]
           /\ limitHit' = hit
           /\ IF (~(proceeds /\ r = ADDED) /\ hit) \/ ~seeds[1].sitemap
              THEN cpc' = "run" /\ UNCHANGED sitemap
              ELSE /\ cpc' = "sitemap"
                   /\ sitemap' = [sitemap EXCEPT !.state = "parsing"]
    /\ UNCHANGED <<seeds, pageLimit, interrupted, pending, done, failed,
                   excluded, calls, pc, data, env, scope,
                   proc, win, ckpt, arch, links, ingest>>

\* parseSitemap, on("url"): queueInScopeUrls(seedId, [url], 0, 0, true)
sitemapUrl(raw) ==
    /\ sitemap.state = "parsing"
    /\ sitemap.count < MaxSitemapUrls
    /\ LET q == queueInScopeUrls(1, raw, 0, 0, TRUE)
       IN  /\ sitemap' = [sitemap EXCEPT !.count = @ + 1, !.chk = q.scope]
           /\ IF q.ok
              THEN queueUrl(q.seedId, q.url, q.depth, q.extraHops,
                            "sitemap", 0, 0, q.isOOS)
              ELSE UNCHANGED <<queue, seen, calls, hist>>
    /\ UNCHANGED <<seeds, pageLimit, limitHit, interrupted, pending, done,
                   failed, excluded, cpc, pc, data, env, scope,
                   proc, win, ckpt, arch, links, ingest>>

\* parseSitemap, on("end"): whether this end event calls markSitemapDone
sitemapMarks_always(finished) == TRUE

sitemapMarks(finished) == ~finished

\* parseSitemap, on("end"): resolve, and markSitemapDone unless finished is
\* set; the reader may emit "end" again (once per drained sitemap queue)
sitemapEnd ==
    /\ sitemap.state \in {"parsing", "done"}
    /\ sitemap.ends < MaxEnds
    /\ sitemap' = [sitemap EXCEPT
                     !.state = "done",
                     !.ends = @ + 1,
                     !.marks = IF sitemapMarks(sitemap.finished)
                               THEN @ + 1 ELSE @,
                     !.finished = TRUE]
    /\ cpc' = IF cpc = "sitemap" THEN "run" ELSE cpc
    /\ UNCHANGED <<seeds, pageLimit, limitHit, interrupted, storeVars, calls,
                   pc, data, hist, env, scope,
                   proc, win, ckpt, arch, links, ingest>>

\* parseSitemap resolves early (100 URLs seen, or the initial-fetch timeout
\* of _addInitialSeeds passes) while the reader goes on in the background
sitemapResolveEarly ==
    /\ cpc = "sitemap"
    /\ sitemap.state = "parsing"
    /\ cpc' = "run"
    /\ sitemap' = [sitemap EXCEPT !.early = TRUE]
    /\ UNCHANGED <<seeds, pageLimit, limitHit, interrupted, storeVars, calls,
                   pc, data, hist, env, scope,
                   proc, win, ckpt, arch, links, ingest>>

\* ------------------------------------------------------------------------
\* PageWorker (models/job.ts) and the page lifecycle (services/crawler.ts)
\* ------------------------------------------------------------------------
\* Crawler.isCrawlRunning
isCrawlRunning == ~interrupted

PageState(e) ==
    [url |-> e.url, seedId |-> e.seedId, depth |-> e.depth,
     extraHops |-> e.extraHops, loadState |-> NONE, isHTMLPage |-> FALSE,
     skipBehaviors |-> FALSE, timedOut |-> FALSE, behaviorLog |-> "none",
     fullLoaded |-> FALSE]

\* runLoop, loop head: leave when the crawl no longer runs, else drain the
\* control channel (processMessage), which may carry an addExclusion
runLoop(w) ==
    /\ cpc = "run"
    /\ pc[w] = "loop"
    /\ IF ~isCrawlRunning
       THEN /\ pc' = [pc EXCEPT ![w] = "exited"]
            /\ UNCHANGED <<seeds, env>>
       ELSE /\ pc' = [pc EXCEPT ![w] = "next"]
            /\ \/ UNCHANGED <<seeds, env>>
               \/ \E rx \in Exclusions :
                    /\ env.exclusions > 0
                    /\ seeds' = [seeds EXCEPT
                                   ![1].exclude = Append(@, rx)]
                    /\ env' = [env EXCEPT !.exclusions = @ - 1]
    /\ UNCHANGED <<pageLimit, limitHit, interrupted, storeVars, calls, cpc,
                   sitemap, data, hist, scope,
                   proc, win, ckpt, arch, links, ingest>>

\* runLoop: nextFromQueue hands out the head of the lowest depth bucket, or
\* takes over an entry whose lock is past its deadline
nextFromQueue(w) ==
    /\ pc[w] = "next"
    /\ \/ /\ queue # <<>>
          /\ LET e == queue[queueHead]
             IN  /\ queue' = removeAt(queue, queueHead)
                 /\ pending' = pending \cup {Lock(e, w)}
                 /\ data' = [data EXCEPT ![w] = PageState(e)]
                 /\ hist' = [hist EXCEPT !.deq[e.url] = @ + 1]
       \/ \E p \in pending :
            /\ reclaimable(p)
            /\ queue' = queue
            /\ pending' = (pending \ {p}) \cup {Lock(p, w)}
            /\ data' = [data EXCEPT ![w] = PageState(p)]
            /\ hist' = [hist EXCEPT !.deq[p.url] = @ + 1,
                                    !.reclaimed[p.url] = @ + 1]
    /\ pc' = [pc EXCEPT ![w] = "scope"]
    /\ UNCHANGED <<seeds, pageLimit, limitHit, interrupted, seen, done,
                   failed, excluded, calls, cpc, sitemap, env, scope,
                   proc, win, ckpt, arch, links, ingest>>

\* runLoop: nextFromQueue gave nothing
noData(w) ==
    /\ pc[w] = "next"
    /\ queue = <<>>
    /\ \A p \in pending : ~reclaimable(p)
    /\ pc' = [pc EXCEPT ![w] = "numPending"]
    /\ UNCHANGED <<seeds, pageLimit, limitHit, interrupted, storeVars, calls,
                   cpc, sitemap, data, hist, env, scope,
                   proc, win, ckpt, arch, links, ingest>>

\* runLoop: numPending(); sleep and retry while something is pending
checkPending(w) ==
    /\ pc[w] = "numPending"
    /\ pc' = [pc EXCEPT ![w] = IF numPending > 0 THEN "loop" ELSE "queueSize"]
    /\ UNCHANGED <<seeds, pageLimit, limitHit, interrupted, storeVars, calls,
                   cpc, sitemap, data, hist, env, scope,
                   proc, win, ckpt, arch, links, ingest>>

\* runLoop: queueSize(); break when the queue is still empty
checkQueueSize(w) ==
    /\ pc[w] = "queueSize"
    /\ pc' = [pc EXCEPT ![w] = IF queueSize = 0 THEN "exited" ELSE "loop"]
    /\ UNCHANGED <<seeds, pageLimit, limitHit, interrupted, storeVars, calls,
                   cpc, sitemap, data, hist, env, scope,
                   proc, win, ckpt, arch, links, ingest>>

\* a lock's deadline (now + maxPageTime) passes
lockExpires(p) ==
    /\ p \in pending
    /\ ~p.expired
    /\ env.expire > 0
    /\ pending' = (pending \ {p}) \cup {[p EXCEPT !.expired = TRUE]}
    /\ env' = [env EXCEPT !.expire = @ - 1]
    /\ UNCHANGED <<seeds, pageLimit, limitHit, interrupted, queue, seen, done,
                   failed, excluded, calls, cpc, sitemap, pc, data, hist,
                   scope, proc, win, ckpt, arch, links, ingest>>

\* Crawler.isInScope, as runLoop calls it on the dequeued entry
isInScope_always(d) == TRUE

isInScope_noOOS(d) ==
    isIncluded(seeds[d.seedId], d.url, d.depth, d.extraHops, TRUE).ok

isInScope(d) ==
    isIncluded(seeds[d.seedId], d.url, d.depth, d.extraHops, FALSE).ok

\* runLoop: recheck the scope; markExcluded when no longer included
scopeCheck(w) ==
    /\ pc[w] = "scope"
    /\ IF isInScope(data[w])
       THEN /\ pc' = [pc EXCEPT ![w] = "init"]
            /\ UNCHANGED <<pending, excluded, data>>
       ELSE /\ pc' = [pc EXCEPT ![w] = "loop"]
            /\ pending' = pending \ ownLock(data[w].url, w)
            /\ excluded' = IF ownLock(data[w].url, w) # {}
                           THEN excluded \cup {data[w].url} ELSE excluded
            /\ data' = [data EXCEPT ![w] = NoData]
    /\ UNCHANGED <<seeds, pageLimit, limitHit, interrupted, queue, seen, done,
                   failed, calls, cpc, sitemap, hist, env, scope,
                   proc, win, ckpt, arch, links, ingest>>

\* initPage: reuse the window, or open a new one while the crawl runs;
\* when it no longer runs initPage throws and run() ends the worker
initPage(w) ==
    /\ pc[w] = "init"
    /\ \E reuse \in BOOLEAN :
         IF reuse \/ isCrawlRunning
         THEN pc' = [pc EXCEPT ![w] = "load"] /\ UNCHANGED data
         ELSE /\ pc' = [pc EXCEPT ![w] = "exited"]
              /\ data' = [data EXCEPT ![w] = NoData]
    /\ UNCHANGED <<seeds, pageLimit, limitHit, interrupted, storeVars, calls,
                   cpc, sitemap, hist, env, scope,
                   proc, win, ckpt, arch, links, ingest>>

\* what page.goto and the response listeners of loadPage can observe
LoadOutcomes == {"failed", "failedAfterContent", "download", "slow", "full"}

\* loadPage up to link extraction.  next says how loadPage goes on: it
\* throws, returns, or extracts links (an HTML page that is not at max
\* depth); fullLoaded notes that the navigation gave a fully loaded response
\* or a download response
loadPage(d, o, html) ==
    LET atMax == isAtMaxDepth(seeds[d.seedId], d.depth, d.extraHops)
        goOn == IF ~html THEN "return"
                ELSE IF atMax THEN "return" ELSE "extract"
    IN
    CASE o = "failed" ->
            \* no response, chrome-error or bad status before content load
            [next |-> "throw", d |-> d]
      [] o = "failedAfterContent" ->
            \* domcontentloaded was seen, then loadPage throws
            [next |-> "throw", d |-> [d EXCEPT !.loadState = CONTENT_LOADED]]
      [] o = "download" ->
            \* ERR_ABORTED on a non-HTML response: a download
            [next |-> "return",
             d |-> [d EXCEPT !.loadState = FULL_PAGE_LOADED,
                             !.fullLoaded = TRUE]]
      [] o = "slow" ->
            \* goto timed out after the first response and content load
            [next |-> goOn,
             d |-> [d EXCEPT !.loadState = CONTENT_LOADED,
                             !.isHTMLPage = html, !.skipBehaviors = TRUE]]
      [] o = "full" ->
            [next |-> goOn,
             d |-> [d EXCEPT !.loadState = FULL_PAGE_LOADED,
                             !.isHTMLPage = html, !.fullLoaded = TRUE]]

\* how the behaviors of a page run: every frame's script runs to the end,
\* the script of some frame throws (its evaluateWithCLI promise rejects),
\* the run as a whole throws, or the run outlasts behaviorTimeout
Behaviors ==
    IF env.faults THEN {"ok", "frameThrows", "runFails", "timeout"}
    ELSE {"ok"}

\* runBehaviors: the frames' scripts are awaited with Promise.allSettled,
\* a rejected one is logged as a warning ("partially failed") and the
\* result is true; only an exception of the run itself gives false
runBehaviors_allOk(b) == TRUE

runBehaviors(b) == b # "runFails"

\* timedRun: the result of the promise, or none (falsy) when the timeout
\* passes first
timedRun(b, res) == IF b = "timeout" THEN FALSE ELSE res

\* doPostLoadActions: EXTRACTION_DONE for an HTML page, then the behaviors
\* unless the page was slow; BEHAVIORS_DONE when the timed run gives true.
\* behaviorLog is what the run logs: "ok" stands for the info line alone,
\* the other values for a warning
doPostLoadActions(d, b) ==
    IF ~d.isHTMLPage THEN d
    ELSE IF d.skipBehaviors THEN [d EXCEPT !.loadState = EXTRACTION_DONE]
    ELSE LET res == timedRun(b, runBehaviors(b))
         IN  [d EXCEPT !.loadState = IF res THEN BEHAVIORS_DONE
                                     ELSE EXTRACTION_DONE,
                       !.behaviorLog = b]

\* pageFinished: the page counts as finished successfully
pageSucceeded_content(loadState) == loadState >= CONTENT_LOADED

pageSucceeded(loadState) == loadState >= FULL_PAGE_LOADED

\* timedCrawlPage, finally: pageFinished(data) marks the URL finished or
\* failed (the store ignores the mark of a worker that lost the lock), then
\* checkLimits may start a graceful finish; the worker loops
pageFinished(w) ==
    /\ pc[w] = "finish"
    /\ LET d == data[w]
           mine == ownLock(d.url, w)
           ok == pageSucceeded(d.loadState)
       IN  /\ pending' = pending \ mine
           /\ done' = IF ok /\ mine # {} THEN done \cup {d.url} ELSE done
           /\ failed' = IF ~ok /\ mine # {}
                        THEN failed \cup {d.url} ELSE failed
    /\ \E limit \in BOOLEAN : interrupted' = (interrupted \/ limit)
    /\ pc' = [pc EXCEPT ![w] = "loop"]
    /\ data' = [data EXCEPT ![w] = NoData]
    /\ UNCHANGED <<seeds, pageLimit, limitHit, queue, seen, excluded, calls,
                   cpc, sitemap, hist, env, scope,
                   proc, win, ckpt, arch, links, ingest>>

\* SeedBase constructor: the crawlConfig of the seed handed in is copied,
\* with include and exclude set to empty lists
SeedBase(seed) == [seed EXCEPT !.include = <<>>, !.exclude = <<>>]

\* ScopedSeed.newScopedSeed: a new ScopedSeed from this seed's name, id,
\* dataConfig and crawlConfig with the given url (setupConfig is not run)
newScopedSeed(seed, url) == SeedBase([seed EXCEPT !.url = url])

\* CrawlStore.addExtraSeed: the seed table with the redirect seed appended;
\* the new seed's id is its position
addExtraSeed(table, origSeedId, newUrl) ==
    Append(table, newScopedSeed(table[origSeedId], newUrl))

\* the URLs the response to a navigation may carry
respUrls(url) == IF env.redirect THEN NormUrls ELSE {url}

\* loadPage: a seed page whose response (not a download) has another URL
seedRedirected(d, o, respUrl) ==
    d.depth = 0 /\ respUrl # d.url /\ o \in {"slow", "full"}

\* timedCrawlPage: crawlPage loads the page; a redirected seed page adds
\* an extra seed and data.seedId becomes its id (the extra seed has the
\* maxDepth and maxExtraHops that loadPage then reads); unless links are to
\* be extracted crawlPage ends here, thrown or returned
crawlPage(w) ==
    /\ pc[w] = "load"
    /\ \E o \in LoadOutcomes, html \in BOOLEAN, b \in Behaviors,
          respUrl \in respUrls(data[w].url) :
         LET r == loadPage(data[w], o, html)
             red == seedRedirected(data[w], o, respUrl)
             seeds1 == IF red
                       THEN addExtraSeed(seeds, data[w].seedId, respUrl)
                       ELSE seeds
             d1 == IF red THEN [r.d EXCEPT !.seedId = Len(seeds1)] ELSE r.d
         IN  /\ env.faults \/ (o = "full" /\ html)
             /\ seeds' = seeds1
             /\ CASE r.next = "extract" ->
                    /\ pc' = [pc EXCEPT ![w] = "extract"]
                    /\ data' = [data EXCEPT ![w] = d1]
               [] r.next = "throw" ->
                    /\ pc' = [pc EXCEPT ![w] = "finish"]
                    /\ data' = [data EXCEPT ![w] = d1]
               [] r.next = "return" ->
                    /\ pc' = [pc EXCEPT ![w] = "finish"]
                    /\ data' = [data EXCEPT ![w] =
                                  doPostLoadActions(d1, b)]
    /\ UNCHANGED <<pageLimit, limitHit, interrupted, storeVars, calls,
                   cpc, sitemap, hist, env, scope,
                   proc, win, ckpt, arch, links, ingest>>

\* extractLinks: the page calls the addLink callback with one URL
addLink(w, raw) ==
    /\ pc[w] = "extract"
    /\ LET d == data[w]
           q == queueInScopeUrls(d.seedId, raw, d.depth, d.extraHops, FALSE)
       IN  /\ q.ok
           /\ queueUrl(q.seedId, q.url, q.depth, q.extraHops,
                       "link", d.depth, d.extraHops, q.isOOS)
    /\ UNCHANGED <<seeds, pageLimit, limitHit, interrupted, pending, done,
                   failed, excluded, cpc, sitemap, pc, data, env, scope,
                   proc, win, ckpt, arch, links, ingest>>

\* __addLink calls whose callback runs late, per run
MaxLate == 1

\* no __addLink call is waiting for its callback
NoLink == [seedId |-> 0, url |-> NoUrl, depth |-> 0, extraHops |-> 0]

\* extractLinks: the script loadLinks calls __addLink(url) in the page and
\* does not wait for it; extractLinks waits for the script (at most
\* PAGE_OP_TIMEOUT_SECS), not for the callback, which holds the seedId,
\* depth and extraHops of the page it was made for
addLinkCalled(w, raw) ==
    /\ pc[w] = "extract"
    /\ env.late > 0
    /\ links = NoLink
    /\ ingest = NoIngest
    /\ links' = [seedId |-> data[w].seedId, url |-> raw,
                 depth |-> data[w].depth, extraHops |-> data[w].extraHops]
    /\ env' = [env EXCEPT !.late = @ - 1]
    /\ UNCHANGED <<seeds, pageLimit, limitHit, interrupted, storeVars, calls,
                   cpc, sitemap, pc, data, hist, scope, proc, win, ckpt,
                   arch, ingest>>

\* callbacks.addLink runs for a call made earlier: queueInScopeUrls
addLinkRuns ==
    /\ links # NoLink
    /\ links' = NoLink
    /\ LET q == queueInScopeUrls(links.seedId, links.url, links.depth,
                                 links.extraHops, FALSE)
       IN  IF q.ok
           THEN queueUrl(q.seedId, q.url, q.depth, q.extraHops,
                         "link", links.depth, links.extraHops, q.isOOS)
           ELSE UNCHANGED <<queue, seen, calls, hist>>
    /\ UNCHANGED <<seeds, pageLimit, limitHit, interrupted, pending, done,
                   failed, excluded, cpc, sitemap, pc, data, env, scope,
                   proc, win, ckpt, arch, ingest>>

\* timedCrawlPage: extractLinks and loadPage return, doPostLoadActions runs
crawlPageDone(w) ==
    /\ pc[w] = "extract"
    /\ \E b \in Behaviors :
         data' = [data EXCEPT ![w] = doPostLoadActions(@, b)]
    /\ pc' = [pc EXCEPT ![w] = "finish"]
    /\ UNCHANGED <<seeds, pageLimit, limitHit, interrupted, storeVars, calls,
                   cpc, sitemap, hist, env, scope,
                   proc, win, ckpt, arch, links, ingest>>

\* timedCrawlPage: what is left of the page data when the race of
\* crawlPage against the page deadline and the crash signal ends early:
\* the data as crawlPage has filled it so far (timedOut notes a deadline)
abortedData_reset(d, why) ==
    [d EXCEPT !.timedOut = (why = "timeout"), !.loadState = NONE]

abortedData(d, why) == [d EXCEPT !.timedOut = (why = "timeout")]

\* timedCrawlPage: the page deadline (maxPageTime) passes or the window
\* crashes while crawlPage loads the page or extracts links; the worker
\* goes on to pageFinished with the load state reached so far
crawlPageAborted(w) ==
    /\ pc[w] \in {"load", "extract"}
    /\ env.faults
    /\ pc' = [pc EXCEPT ![w] = "finish"]
    /\ \E why \in {"timeout", "crash"} :
         data' = [data EXCEPT ![w] = abortedData(@, why)]
    /\ UNCHANGED <<seeds, pageLimit, limitHit, interrupted, storeVars, calls,
                   cpc, sitemap, hist, env, scope, proc, win, ckpt, arch, links, ingest>>

\* a SIGINT/SIGTERM handler calls gracefulFinishOnInterrupt
interrupt ==
    /\ ~interrupted
    /\ interrupted' = TRUE
    /\ UNCHANGED <<seeds, pageLimit, limitHit, storeVars, calls, cpc,
                   sitemap, pc, data, hist, env, scope,
                   proc, win, ckpt, arch, links, ingest>>

\* ------------------------------------------------------------------------
\* The crawler process (main.ts, Crawler.run) and a worker's window
\* ------------------------------------------------------------------------
\* pages the queue of the process model holds at most
MaxTodo == 2

\* the clock of the process model advances in steps of TickMs milliseconds
TickMs == 100

\* main.ts: a repeated signal is tested against this gap (milliseconds)
SIGNAL_GAP_MS == 200

\* Logger.fatalExitCode before setDefaultFatalExitCode
FATAL_EXIT_CODE == 17

\* PageWorker: MAX_REUSE
MAX_REUSE == 5

\* the process before main.ts has constructed the crawler
NoProc ==
    [restartsOnError |-> FALSE, logErrorsToRedis |-> FALSE,
     saveState |-> "always",
     rpc |-> "start", wpc |-> [w \in Workers |-> "loop"], todo |-> 0,
     browserCrashed |-> FALSE, canceled |-> FALSE, stopped |-> FALSE,
     status |-> "none", forceTerm |-> FALSE, age |-> SIGNAL_GAP_MS + TickMs,
     hpc |-> "idle", armed |-> FALSE, exitOnError |-> FALSE, exits |-> {}, exited |-> FALSE,
     exitCode |-> 0, via |-> "none", checkpoint |-> FALSE, threw |-> FALSE,
     limits |-> FALSE, uploadAndDeleteLocal |-> FALSE,
     limitReached |-> FALSE,
     initState |-> "none", waitOnDone |-> FALSE, seeded |-> FALSE,
     started |-> FALSE, errors |-> FALSE]

\* callers of serializeConfig that may overlap (pageFinished of each worker)
SaveCallers == 1..NumWorkers

\* a serializeConfig call that is not running
NoSave == [pc |-> "idle", filename |-> -1, oldFilename |-> -1]

\* the crawler at start: saveStateFiles = [], lastSaveTime = 0 (long ago),
\* no checkpoint file of this process on disk.  A file name is the second
\* of its timestamp; written lists the names in the order last written.
NoCkpt ==
    [saveStateHistory |-> 1, saveStateInterval |-> 0, now |-> 0,
     lastSaveTime |-> -1, saveStateFiles |-> <<>>, disk |-> {},
     written |-> <<>>, call |-> [c \in SaveCallers |-> NoSave]]

\* downloads that may run at the same time (Promise.all, several workers)
NumDownloads == 2

Downloads == 1..NumDownloads

\* paths in the archive directory
ArchPaths == {"p", "q"}

\* a download that is not running
NoDownload == [pc |-> "idle", path |-> "none", write |-> FALSE]

\* an empty archive directory: per path, how often the file was written
NoArch == [writes |-> [p \in ArchPaths |-> 0],
           dl |-> [d \in Downloads |-> NoDownload],
           started |-> 0]

\* no "request" listener is registered on the window's page
NoHandler == [origin |-> "none", doCrawl |-> FALSE]

\* a PageWorker after construction: no window yet
NoWin ==
    [alwaysReuse |-> FALSE, page |-> "none", crashed |-> FALSE,
     reuseCount |-> 0, wpc |-> "loop", url |-> "none", served |-> 0,
     fresh |-> FALSE, bg |-> FALSE,
     recrawlUpdateData |-> FALSE, first |-> NoHandler, mainDoc |-> "none"]

\* ------------------------------------------------------------------------
\* The crawl: one original seed, NumWorkers workers
\* ------------------------------------------------------------------------
NoHist == [enq |-> [u \in HttpUrls |-> 0],
           deq |-> [u \in HttpUrls |-> 0],
           reclaimed |-> [u \in HttpUrls |-> 0],
           origin |-> [u \in HttpUrls |-> NoOrigin],
           excl |-> [u \in HttpUrls |-> <<>>],
           limitAnswered |-> FALSE]

\* Each run has one kind of outside event: a seed with a sitemap, page
\* locks that pass their deadline, an operator adding exclusions, or pages
\* that misbehave (fail to load, are downloads, load slowly, run into the
\* page deadline, have failing behaviors), or a site that redirects, or
\* a page whose __addLink call is served late.
\* Without faults every page is an HTML page that loads fully.
Envs ==
    {[sitemap |-> TRUE, expire |-> 0, exclusions |-> 0, faults |-> FALSE,
      redirect |-> FALSE, late |-> 0],
     [sitemap |-> FALSE, expire |-> MaxExpire, exclusions |-> 0,
      faults |-> FALSE, redirect |-> FALSE, late |-> 0],
     [sitemap |-> FALSE, expire |-> 0, exclusions |-> MaxExclusions,
      faults |-> FALSE, redirect |-> FALSE, late |-> 0],
     [sitemap |-> FALSE, expire |-> 0, exclusions |-> 0, faults |-> TRUE,
      redirect |-> FALSE, late |-> 0],
     [sitemap |-> FALSE, expire |-> 0, exclusions |-> 0, faults |-> FALSE,
      redirect |-> TRUE, late |-> 0],
     [sitemap |-> FALSE, expire |-> 0, exclusions |-> 0, faults |-> FALSE,
      redirect |-> FALSE, late |-> MaxLate]}

\* the scopes of the original seed: host scope at depth 0 or 1 with extra
\* hops off or on, and a custom scope (only the seed page is in scope) one
\* level deeper
SeedConfigs ==
    {[include |-> HostInclude, maxDepth |-> md, maxExtraHops |-> mh] :
        md \in 0..MaxDepthCfg, mh \in 0..MaxHopsCfg}
    \cup {[include |-> CustomInclude, maxDepth |-> MaxDepthCfg + 1,
           maxExtraHops |-> MaxHopsCfg]}

Init ==
    /\ \E c \in SeedConfigs, e \in Envs :
         /\ seeds = <<Seed(SeedUrl, c.include, <<>>, c.maxDepth,
                           c.maxExtraHops, FALSE, e.sitemap)>>
         /\ env = [expire |-> e.expire, exclusions |-> e.exclusions,
                   faults |-> e.faults, redirect |-> e.redirect,
                   late |-> e.late]
    /\ pageLimit \in {0, PageLimitCfg}
    /\ limitHit = FALSE
    /\ interrupted = FALSE
    /\ queue = <<>>
    /\ pending = {}
    /\ seen = {}
    /\ done = {}
    /\ failed = {}
    /\ excluded = {}
    /\ calls = 0
    /\ cpc = "addSeed"
    /\ sitemap = NoSitemap
    /\ ckpt = NoCkpt
    /\ arch = NoArch
    /\ links = NoLink
    /\ ingest = NoIngest
    /\ pc = [w \in Workers |-> "loop"]
    /\ data = [w \in Workers |-> NoData]
    /\ hist = NoHist
    /\ scope = NoScope
    /\ proc = NoProc
    /\ win = NoWin

Next ==
    \/ addInitialSeeds
    \/ \E raw \in RawUrls : sitemapUrl(raw)
    \/ sitemapEnd
    \/ sitemapResolveEarly
    \/ queueUrlReturn
    \/ \E w \in Workers : runLoop(w)
    \/ \E w \in Workers : nextFromQueue(w)
    \/ \E w \in Workers : noData(w)
    \/ \E w \in Workers : checkPending(w)
    \/ \E w \in Workers : checkQueueSize(w)
    \/ \E p \in pending : lockExpires(p)
    \/ \E w \in Workers : scopeCheck(w)
    \/ \E w \in Workers : initPage(w)
    \/ \E w \in Workers : crawlPage(w)
    \/ \E w \in Workers, raw \in RawUrls : addLink(w, raw)
    \/ \E w \in Workers, raw \in RawUrls : addLinkCalled(w, raw)
    \/ addLinkRuns
    \/ \E w \in Workers : crawlPageDone(w)
    \/ \E w \in Workers : crawlPageAborted(w)
    \/ \E w \in Workers : pageFinished(w)
    \/ interrupt

Spec == Init /\ [][Next]_vars

\* ------------------------------------------------------------------------
\* The crawl under fair scheduling: every worker that can take a step of
\* its loop eventually does, and the deadline of a lock whose owner has
\* left its loop eventually passes
\* ------------------------------------------------------------------------
\* initPage: the window cannot be set up and the browser is gone; initPage
\* throws "no page available" and run() ends the worker, which has dequeued
\* the URL and leaves it in progress
initPageFails(w) ==
    /\ pc[w] = "init"
    /\ pc' = [pc EXCEPT ![w] = "exited"]
    /\ data' = [data EXCEPT ![w] = NoData]
    /\ UNCHANGED <<seeds, pageLimit, limitHit, interrupted, storeVars, calls,
                   cpc, sitemap, hist, env, scope,
                   proc, win, ckpt, arch, links, ingest>>

\* the deadline (now + maxPageTime) of a lock whose owner has left passes
lockDeadline(p) ==
    /\ p \in pending
    /\ ~p.expired
    /\ pc[p.owner] = "exited"
    /\ pending' = (pending \ {p}) \cup {[p EXCEPT !.expired = TRUE]}
    /\ UNCHANGED <<seeds, pageLimit, limitHit, interrupted, queue, seen, done,
                   failed, excluded, calls, cpc, sitemap, pc, data, hist, env,
                   scope, proc, win, ckpt, arch, links, ingest>>

\* one seed with host scope and one level of links, no page limit; the
\* lock of a worker at work may pass its deadline MaxExpire times
LiveInit ==
    /\ Init
    /\ seeds = <<Seed(SeedUrl, HostInclude, <<>>, MaxDepthCfg, 0, FALSE,
                      FALSE)>>
    /\ env = [expire |-> MaxExpire, exclusions |-> 0, faults |-> FALSE,
              redirect |-> FALSE, late |-> 0]
    /\ pageLimit = 0

\* the steps of worker w's loop (PageWorker.runLoop) that end by themselves
WorkerStep(w) ==
    \/ runLoop(w)
    \/ nextFromQueue(w)
    \/ noData(w)
    \/ checkPending(w)
    \/ checkQueueSize(w)
    \/ scopeCheck(w)
    \/ initPage(w)
    \/ crawlPage(w)
    \/ crawlPageDone(w)
    \/ pageFinished(w)

LiveNext ==
    \/ addInitialSeeds
    \/ \E w \in Workers : WorkerStep(w)
    \/ \E w \in Workers : initPageFails(w)
    \/ \E w \in Workers, raw \in RawUrls : addLink(w, raw)
    \/ \E p \in pending : lockExpires(p)
    \/ \E p \in pending : lockDeadline(p)
    \/ interrupt

LiveSpec ==
    /\ LiveInit
    /\ [][LiveNext]_vars
    /\ WF_vars(addInitialSeeds)
    /\ \A w \in Workers : WF_vars(WorkerStep(w))
    /\ WF_vars(\E p \in pending : lockDeadline(p))

\* ------------------------------------------------------------------------
\* _addInitialSeeds and parseSitemap for a crawl with several seeds
\* ------------------------------------------------------------------------
\* the second seed: a page of another host, with that host as its scope
SecondSeedUrl == Url("http", "x", FALSE)
SecondInclude == <<RxPages({p \in Pages : originOf(p) = "other"})>>

\* the store's flag (markSitemapDone / isSitemapDone): one flag per crawl
isSitemapDone(flag, reader, s) == flag

\* the loop of _addInitialSeeds moves on to seed i + 1, or is over
seedsAdvance(i) ==
    [idx |-> i + 1, cpc |-> IF i + 1 > Len(seeds) THEN "run" ELSE "addSeed"]

\* one iteration of _addInitialSeeds: await queueUrl(i, seed.url, 0, 0) and
\* break when it returns false with limitHit set; for a seed with a sitemap
\* parseSitemap(seed, i), which returns at once when isSitemapDone() holds
\* or when the reader's parse() throws (fails), and else waits for its
\* reader
seedsAddSeed(fails) ==
    /\ cpc = "addSeed"
    /\ ingest.i <= Len(seeds)
    /\ LET i == ingest.i
           e == Entry(seeds[i].url, i, 0, 0)
           r == addToQueue(e, queueUrlLimit(pageLimit))
           proceeds == queueUrlProceeds(limitHit)
           hit == limitHitAfter(IF proceeds THEN r ELSE DUPE_URL, limitHit)
           adv == seedsAdvance(i)
       IN  /\ IF proceeds /\ r = ADDED
              THEN /\ queue' = Append(queue, e)
                   /\ seen' = seen \cup {e.url}
                   /\ hist' = [hist EXCEPT
                                 !.enq[e.url] = @ + 1,
                                 !.origin[e.url] =
                                     Origin("seed", 0, 0, FALSE, 0, 0)]
              ELSE /\ UNCHANGED <<queue, seen>>
                   /\ hist' = [hist EXCEPT
                                 !.limitAnswered =
                                     @ \/ (proceeds /\ r = LIMIT_HIT)]
           /\ limitHit' = hit
           /\ IF ~(proceeds /\ r = ADDED) /\ hit
              THEN cpc' = "run" /\ UNCHANGED ingest
              ELSE IF ~seeds[i].sitemap
              THEN /\ cpc' = adv.cpc
                   /\ ingest' = [ingest EXCEPT !.i = adv.idx]
              ELSE IF isSitemapDone(ingest.done, ingest.reader, i)
              THEN /\ cpc' = adv.cpc
                   /\ ingest' = [ingest EXCEPT !.i = adv.idx,
                                               !.reader[i] = "skipped"]
              ELSE IF fails
              THEN /\ cpc' = adv.cpc
                   /\ ingest' = [ingest EXCEPT !.i = adv.idx,
                                               !.reader[i] = "failed"]
              ELSE /\ cpc' = "sitemap"
                   /\ ingest' = [ingest EXCEPT !.reader[i] = "parsing"]
    /\ UNCHANGED <<seeds, pageLimit, interrupted, pending, done, failed,
                   excluded, calls, sitemap, pc, data, env, scope,
                   proc, win, ckpt, arch, links>>

\* parseSitemap, on("url") of the reader of seed s:
\* queueInScopeUrls(seedId, [url], 0, 0, true)
readerUrl(s, raw) ==
    /\ ingest.reader[s] = "parsing"
    /\ ingest.count[s] < MaxSitemapUrls
    /\ ingest' = [ingest EXCEPT !.count[s] = @ + 1]
    /\ LET q == queueInScopeUrls(s, raw, 0, 0, TRUE)
       IN  IF q.ok
           THEN queueUrl(q.seedId, q.url, q.depth, q.extraHops,
                         "sitemap", 0, 0, q.isOOS)
           ELSE UNCHANGED <<queue, seen, calls, hist>>
    /\ UNCHANGED <<seeds, pageLimit, limitHit, interrupted, pending, done,
                   failed, excluded, cpc, sitemap, pc, data, env, scope,
                   proc, win, ckpt, arch, links>>

\* parseSitemap, on("end") of the reader of seed s: resolve, and
\* markSitemapDone (finished is unset at the reader's first end)
readerEnd(s) ==
    /\ ingest.reader[s] = "parsing"
    /\ LET waited == cpc = "sitemap" /\ ingest.i = s
           adv == seedsAdvance(s)
       IN  /\ ingest' = [ingest EXCEPT
                           !.reader[s] = "ended",
                           !.done = @ \/ sitemapMarks(FALSE),
                           !.i = IF waited THEN adv.idx ELSE @]
           /\ cpc' = IF waited THEN adv.cpc ELSE cpc
    /\ UNCHANGED <<seeds, pageLimit, limitHit, interrupted, storeVars, calls,
                   sitemap, pc, data, hist, env, scope,
                   proc, win, ckpt, arch, links>>

\* parseSitemap resolves before the end of the reader it waits for (100
\* URLs seen, or the initial-fetch timeout of _addInitialSeeds passes)
readerResolveEarly ==
    /\ cpc = "sitemap"
    /\ ingest.reader[ingest.i] = "parsing"
    /\ LET adv == seedsAdvance(ingest.i)
       IN  /\ cpc' = adv.cpc
           /\ ingest' = [ingest EXCEPT !.i = adv.idx]
    /\ UNCHANGED <<seeds, pageLimit, limitHit, interrupted, storeVars, calls,
                   sitemap, pc, data, hist, env, scope,
                   proc, win, ckpt, arch, links>>

\* a fresh crawl with NumSeeds seeds, each with or without a sitemap
SeedsInit ==
    /\ \E sm \in [1..NumSeeds -> BOOLEAN] :
         seeds = [s \in 1..NumSeeds |->
                    IF s = 1
                    THEN Seed(SeedUrl, HostInclude, <<>>, MaxDepthCfg, 0,
                              FALSE, sm[s])
                    ELSE Seed(SecondSeedUrl, SecondInclude, <<>>,
                              MaxDepthCfg, 0, FALSE, sm[s])]
    /\ env = [expire |-> 0, exclusions |-> 0, faults |-> FALSE,
              redirect |-> FALSE, late |-> 0]
    /\ pageLimit \in {0, PageLimitCfg}
    /\ limitHit = FALSE
    /\ interrupted = FALSE
    /\ queue = <<>>
    /\ pending = {}
    /\ seen = {}
    /\ done = {}
    /\ failed = {}
    /\ excluded = {}
    /\ calls = 0
    /\ cpc = "addSeed"
    /\ sitemap = NoSitemap
    /\ ckpt = NoCkpt
    /\ arch = NoArch
    /\ links = NoLink
    /\ ingest = NoIngest
    /\ pc = [w \in Workers |-> "loop"]
    /\ data = [w \in Workers |-> NoData]
    /\ hist = NoHist
    /\ scope = NoScope
    /\ proc = NoProc
    /\ win = NoWin

SeedsNext ==
    \/ \E fails \in BOOLEAN : seedsAddSeed(fails)
    \/ \E s \in 1..NumSeeds, raw \in RawUrls : readerUrl(s, raw)
    \/ \E s \in 1..NumSeeds : readerEnd(s)
    \/ readerResolveEarly
    \/ queueUrlReturn

SeedsSpec == SeedsInit /\ [][SeedsNext]_vars

\* ------------------------------------------------------------------------
\* Direct calls of ScopedSeed.isIncluded on drawn seeds and arguments
\* ------------------------------------------------------------------------
ScopeIncludes == {<<>>, HostInclude, <<{Url("http", "a", TRUE)}>>,
                  <<RxPages({"c"}), RxPages({"a", "x"})>>}
ScopeExcludes == {<<>>, <<RxPages({"c"})>>, <<RxPages({"a"}), RxPages({"x"})>>}

ScopeInit ==
    /\ \E f \in BOOLEAN, inc \in ScopeIncludes, exc \in ScopeExcludes,
          md \in 0..MaxDepthCfg, mh \in 0..(MaxHopsCfg + 1), ah \in BOOLEAN :
         seeds = <<Seed(Url("http", "a", f), inc, exc, md, mh, ah, FALSE)>>
    /\ \E raw \in RawUrls, d \in 0..MaxArg, h \in 0..MaxArg, n \in BOOLEAN :
         scope = [called |-> FALSE, seed |-> 1, url |-> raw, depth |-> d,
                  extraHops |-> h, noOOS |-> n, res |-> Reject]
    /\ pageLimit = 0
    /\ limitHit = FALSE
    /\ interrupted = FALSE
    /\ queue = <<>>
    /\ pending = {}
    /\ seen = {}
    /\ done = {}
    /\ failed = {}
    /\ excluded = {}
    /\ calls = 0
    /\ cpc = "addSeed"
    /\ sitemap = NoSitemap
    /\ ckpt = NoCkpt
    /\ arch = NoArch
    /\ links = NoLink
    /\ ingest = NoIngest
    /\ pc = [w \in Workers |-> "loop"]
    /\ data = [w \in Workers |-> NoData]
    /\ hist = NoHist
    /\ env = [expire |-> 0, exclusions |-> 0, faults |-> FALSE,
              redirect |-> FALSE, late |-> 0]
    /\ proc = NoProc
    /\ win = NoWin

\* the call: seed.isIncluded(url, depth, extraHops, logDetails, noOOS)
scopeCall ==
    /\ ~scope.called
    /\ scope' = [scope EXCEPT
                   !.called = TRUE,
                   !.res = isIncluded(seeds[scope.seed], scope.url,
                                      scope.depth, scope.extraHops,
                                      scope.noOOS)]
    /\ UNCHANGED <<seeds, pageLimit, limitHit, interrupted, storeVars, calls,
                   cpc, sitemap, pc, data, hist, env, proc, win, ckpt, arch, links, ingest>>

ScopeNext == scopeCall

ScopeSpec == ScopeInit /\ [][ScopeNext]_vars

\* ------------------------------------------------------------------------
\* The crawler process: Crawler.run, the signal handlers of main.ts, the
\* exit calls.  The crawl itself is reduced to workers that take pages
\* from a counted queue.
\* ------------------------------------------------------------------------
\* what the process model leaves alone
crawlRest == <<seeds, pageLimit, limitHit, storeVars, calls, cpc, sitemap, pc,
               data, hist, env, scope, win, ckpt, arch, links, ingest>>

\* the statuses setStatusAndExit and Logger.fatal write, and the final ones
FinalStatuses == {"done", "failing", "failed", "interrupted", "canceled"}

\* a worker holds a page in progress: it is working on it, or its run()
\* ended with an exception after it had dequeued it
holdsPage(w) == proc.wpc[w] \in {"page", "threw"}

\* store: isFinished(), nothing queued and nothing in progress
procFinished ==
    proc.todo = 0 /\ \A w \in Workers : ~holdsPage(w)

\* setStatusAndExit(exitCode, status) is called: the status write and the
\* exit that follows it are still to come
ExitCall(code, status, via) ==
    [code |-> code, status |-> status, via |-> via, written |-> FALSE]

\* Logger.fatal: exitCode = exitCode || this.fatalExitCode, where
\* setDefaultFatalExitCode(0) has run when restartsOnError is set
fatalExit_default(exitCode, restartsOnError) ==
    IF restartsOnError THEN 0 ELSE FATAL_EXIT_CODE

fatalExit(exitCode, restartsOnError) ==
    IF exitCode # 0 THEN exitCode
    ELSE IF restartsOnError THEN 0 ELSE FATAL_EXIT_CODE

\* Logger.fatal(message, data, context, exitCode): process.exit runs while
\* the arguments of .finally are evaluated, so the setStatus("failed")
\* issued just before (only when the logger holds the store) may or may
\* not reach the store (lim: the exit comes at a page finish at which a
\* size, time or disk limit is reached)
loggerFatal(exitCode, via, lim) ==
    /\ \E landed \in BOOLEAN :
         proc' = [proc EXCEPT
                    !.limitReached = @ \/ lim,
                    !.status = IF landed /\ proc.logErrorsToRedis
                               THEN "failed" ELSE @,
                    !.exited = TRUE,
                    !.exitCode = fatalExit(exitCode, proc.restartsOnError),
                    !.via = via]
    /\ UNCHANGED interrupted

\* Crawler.run, try/finally: the status and exit code run() hands to
\* setStatusAndExit after crawl() returned
runOutcome_swapped(finished, stopped, canceled, intr, browserCrashed) ==
    IF finished THEN ExitCall(0, "done", "run")
    ELSE IF canceled THEN ExitCall(0, "canceled", "run")
    ELSE IF stopped THEN ExitCall(0, "done", "run")
    ELSE IF intr
         THEN ExitCall(IF browserCrashed THEN 11 ELSE 10, "interrupted", "run")
    ELSE ExitCall(0, "done", "run")

runOutcome(finished, stopped, canceled, intr, browserCrashed) ==
    IF finished THEN ExitCall(0, "done", "run")
    ELSE IF canceled THEN ExitCall(0, "canceled", "run")
    ELSE IF stopped THEN ExitCall(0, "done", "run")
    ELSE IF intr
         THEN ExitCall(IF browserCrashed THEN 10 ELSE 11, "interrupted", "run")
    ELSE ExitCall(0, "done", "run")

\* Crawler.run, catch: exit code 9, status failing, or failed when
\* incFailCount() says so
runFailure(tooMany) ==
    ExitCall(9, IF tooMany THEN "failed" ELSE "failing", "run")

\* Crawler.crawl, what follows the read of the stored status: poll again
\* while it is debug; when it is done park (waitOnDone) or return; else go
\* on with the crawl
crawlInit_ignoreDone(initState, waitOnDone) ==
    IF initState = "debug" THEN "poll" ELSE "go"

crawlInit(initState, waitOnDone) ==
    IF initState = "debug" THEN "poll"
    ELSE IF initState = "done"
         THEN (IF waitOnDone THEN "park" ELSE "return")
    ELSE "go"

\* Crawler.crawl up to runWorkers: initState = getStatus(), read again
\* after a sleep while it is debug; a done crawl parks or returns; a crawl
\* stopped or canceled in the store returns at once; otherwise status
\* running, _addInitialSeeds (seeded), browser, runWorkers (started)
crawlStart ==
    /\ ~proc.exited
    /\ proc.rpc \in {"start", "debug"}
    /\ LET initState == proc.status
           step == crawlInit(initState, proc.waitOnDone)
       IN  CASE step = "poll" ->
                  proc' = [proc EXCEPT !.rpc = "debug",
                                       !.initState = initState]
             [] step = "park" ->
                  proc' = [proc EXCEPT !.rpc = "parked",
                                       !.initState = initState]
             [] step = "return" ->
                  proc' = [proc EXCEPT !.rpc = "outcome",
                                       !.initState = initState]
             [] step = "go" ->
                  IF proc.stopped \/ proc.canceled
                  THEN proc' = [proc EXCEPT !.rpc = "outcome",
                                            !.initState = initState]
                  ELSE proc' = [proc EXCEPT !.rpc = "crawl",
                                            !.initState = initState,
                                            !.status = "running",
                                            !.seeded = TRUE,
                                            !.started = TRUE]
    /\ UNCHANGED <<interrupted, crawlRest>>

\* an operator ends the debug pause: the stored status is running again
operatorResumes ==
    /\ ~proc.exited
    /\ proc.status = "debug"
    /\ proc' = [proc EXCEPT !.status = "running"]
    /\ UNCHANGED <<interrupted, crawlRest>>

\* Crawler.crawl throws (initCrawlState, browser.launch, the checkpoint
\* directory, writeStats): run() catches it
crawlThrows ==
    /\ ~proc.exited
    /\ proc.rpc \in {"start", "serialize"}
    /\ \E tooMany \in BOOLEAN :
         proc' = [proc EXCEPT !.rpc = "exiting", !.threw = TRUE,
                              !.exits = @ \cup {runFailure(tooMany)}]
    /\ UNCHANGED <<interrupted, crawlRest>>

\* Crawler.isCrawlRunning as the loop head of runLoop sees it
crawlRunning_ignoreInterrupt(intr, canceled, stopped) ==
    IF canceled THEN "cancel"
    ELSE IF stopped THEN "no" ELSE "yes"

crawlRunning(intr, canceled, stopped) ==
    IF intr THEN "no"
    ELSE IF canceled THEN "cancel"
    ELSE IF stopped THEN "no" ELSE "yes"

\* runLoop, loop head: leave the loop, go on to nextFromQueue, or (crawl
\* canceled in the store) call setStatusAndExit(0, "canceled")
workerLoop(w) ==
    /\ ~proc.exited
    /\ proc.rpc = "crawl"
    /\ proc.wpc[w] = "loop"
    /\ LET r == crawlRunning(interrupted, proc.canceled, proc.stopped)
       IN  proc' = [proc EXCEPT
                      !.wpc[w] = CASE r = "yes" -> "next"
                                   [] r = "no" -> "exited"
                                   [] r = "cancel" -> "canceling",
                      !.exits = IF r = "cancel"
                                THEN @ \cup {ExitCall(0, "canceled", "cancel")}
                                ELSE @]
    /\ UNCHANGED <<interrupted, crawlRest>>

\* runLoop: nextFromQueue hands out a page, or nothing: wait while pages
\* are in progress, leave when there are none
workerNext(w) ==
    /\ ~proc.exited
    /\ proc.wpc[w] = "next"
    /\ proc' = [proc EXCEPT
                  !.wpc[w] = IF proc.todo > 0 THEN "page"
                             ELSE IF \E v \in Workers : holdsPage(v)
                                  THEN "loop" ELSE "exited",
                  !.todo = IF @ > 0 THEN @ - 1 ELSE @]
    /\ UNCHANGED <<interrupted, crawlRest>>

\* what a page finish may find of the size, time and disk limits
LimitsReached == IF proc.limits THEN BOOLEAN ELSE {FALSE}

\* checkLimits: interrupt is set by the size limit, the time limit or the
\* disk-utilization threshold
checkLimits_noDisk(size, time, disk) == size \/ time

checkLimits(size, time, disk) == size \/ time \/ disk

\* runLoop: initPage and timedCrawlPage end; the page queued found links;
\* pageFinished runs checkLimits, which on interrupt sets
\* uploadAndDeleteLocal and calls gracefulFinishOnInterrupt
workerPage(w) ==
    /\ ~proc.exited
    /\ proc.wpc[w] = "page"
    /\ \E found \in 0..1, size \in LimitsReached, time \in LimitsReached,
          disk \in LimitsReached :
         LET stop == checkLimits(size, time, disk) IN
         /\ proc.todo + found <= MaxTodo
         /\ proc' = [proc EXCEPT
                       !.wpc[w] = "loop", !.todo = @ + found,
                       !.limitReached = @ \/ size \/ time \/ disk,
                       !.uploadAndDeleteLocal = @ \/ stop]
         /\ interrupted' = (interrupted \/ stop)
    /\ UNCHANGED crawlRest

\* Logger.fatal from a worker's page: pageFinished (a failed seed page
\* with failOnFailedSeed, exit code 1, before checkLimits), checkLimits
\* (failOnFailedLimit reached, before the interrupt is acted on), initPage
\* (no new window after MAX_REUSE tries)
workerFatal(w) ==
    /\ ~proc.exited
    /\ proc.wpc[w] = "page"
    /\ \/ \E lim \in LimitsReached : loggerFatal(1, "fatalSeed", lim)
       \/ \E lim \in LimitsReached : loggerFatal(0, "fatalLimit", lim)
       \/ loggerFatal(0, "fatalWindow", FALSE)
    /\ UNCHANGED crawlRest

\* PageWorker.run: an awaited call of runLoop rejects (a call of the
\* store fails, initPage is left without a window); run() logs "Worker
\* error, exiting" and returns.  A page the worker had dequeued stays in
\* progress in the store.
workerThrows(w) ==
    /\ ~proc.exited
    /\ proc.errors
    /\ proc.rpc = "crawl"
    /\ proc.wpc[w] \in {"loop", "next", "page"}
    /\ proc' = [proc EXCEPT
                  !.wpc[w] = IF @ = "page" THEN "threw" ELSE "exited"]
    /\ UNCHANGED <<interrupted, crawlRest>>

\* redis.ts: an ioredis error event once setExitOnRedisError() has run
redisGone ==
    /\ ~proc.exited
    /\ proc.exitOnError
    /\ loggerFatal(0, "fatalRedis", FALSE)
    /\ UNCHANGED crawlRest

\* browser.launch, ondisconnect
browserDisconnected ==
    /\ ~proc.exited
    /\ proc.rpc = "crawl"
    /\ ~proc.browserCrashed
    /\ interrupted' = TRUE
    /\ proc' = [proc EXCEPT !.browserCrashed = TRUE]
    /\ UNCHANGED crawlRest

\* an operator cancels or stops the crawl in the store
operatorSets(flag) ==
    /\ ~proc.exited
    /\ proc.rpc # "exiting"
    /\ ~proc.canceled /\ ~proc.stopped
    /\ proc' = IF flag = "cancel" THEN [proc EXCEPT !.canceled = TRUE]
               ELSE [proc EXCEPT !.stopped = TRUE]
    /\ UNCHANGED <<interrupted, crawlRest>>

\* serializeConfig(done): does this call write a checkpoint file
serializeWrites(saveState, isDone, finished) ==
    CASE saveState = "never" -> FALSE
      [] saveState = "partial" -> isDone /\ ~finished
      [] OTHER -> TRUE

\* Crawler.crawl after runWorkers: serializeConfig(true), writeStats,
\* postCrawl
crawlSerialize ==
    /\ ~proc.exited
    /\ proc.rpc = "crawl"
    /\ \A w \in Workers : proc.wpc[w] \in {"exited", "threw"}
    /\ proc' = [proc EXCEPT
                  !.rpc = "serialize",
                  !.checkpoint = serializeWrites(proc.saveState, TRUE,
                                                 procFinished)]
    /\ UNCHANGED <<interrupted, crawlRest>>

\* Crawler.run after crawl() returned: isFinished, isCrawlStopped,
\* isCrawlCanceled, then finally setStatusAndExit(exitCode, status)
runFinally ==
    /\ ~proc.exited
    /\ proc.rpc \in {"serialize", "outcome"}
    /\ proc' = [proc EXCEPT
                  !.rpc = "exiting",
                  !.exits = @ \cup {runOutcome(procFinished, proc.stopped,
                                               proc.canceled, interrupted,
                                               proc.browserCrashed)}]
    /\ UNCHANGED <<interrupted, crawlRest>>

\* setStatusAndExit: await crawlState.setStatus(status)
setStatus(c) ==
    /\ ~proc.exited
    /\ c \in proc.exits
    /\ ~c.written
    /\ proc' = [proc EXCEPT
                  !.status = c.status,
                  !.exits = (@ \ {c}) \cup {[c EXCEPT !.written = TRUE]}]
    /\ UNCHANGED <<interrupted, crawlRest>>

\* setStatusAndExit: process.exit(exitCode)
processExit(c) ==
    /\ ~proc.exited
    /\ c \in proc.exits
    /\ c.written
    /\ proc' = [proc EXCEPT !.exited = TRUE, !.exitCode = c.code,
                            !.via = c.via]
    /\ UNCHANGED <<interrupted, crawlRest>>

\* main.ts: SIGINT or SIGTERM arrives and handleTerminate starts; without
\* a crawler that has its store it exits 1 (armed records whether SIGABRT
\* had come before this signal)
signalTerm ==
    /\ ~proc.exited
    /\ proc.hpc = "idle"
    /\ IF proc.rpc = "start"
       THEN proc' = [proc EXCEPT !.exited = TRUE, !.exitCode = 1,
                                 !.via = "noCrawler"]
       ELSE proc' = [proc EXCEPT !.hpc = "isFinished",
                                 !.armed = proc.forceTerm]
    /\ UNCHANGED <<interrupted, crawlRest>>

\* handleTerminate: a finished crawl exits 0, else setExitOnRedisError()
handleIsFinished ==
    /\ ~proc.exited
    /\ proc.hpc = "isFinished"
    /\ IF procFinished
       THEN proc' = [proc EXCEPT !.exited = TRUE, !.exitCode = 0,
                                 !.via = "signalFinished"]
       ELSE proc' = [proc EXCEPT !.hpc = "checkCanceled",
                                 !.exitOnError = TRUE]
    /\ UNCHANGED <<interrupted, crawlRest>>

\* handleTerminate: checkCanceled()
handleCheckCanceled ==
    /\ ~proc.exited
    /\ proc.hpc = "checkCanceled"
    /\ IF proc.canceled
       THEN proc' = [proc EXCEPT
                       !.hpc = "exiting",
                       !.exits = @ \cup {ExitCall(0, "canceled", "cancel")}]
       ELSE proc' = [proc EXCEPT !.hpc = "decide"]
    /\ UNCHANGED <<interrupted, crawlRest>>

\* handleTerminate: does a signal that finds the crawl interrupted stop it
\* at once (age is Date.now() - lastSigInt)
hardStops_within(forceTerm, age) == forceTerm \/ age <= SIGNAL_GAP_MS

hardStops(forceTerm, age) == forceTerm \/ age > SIGNAL_GAP_MS

\* handleTerminate: graceful finish on the first signal, hard stop or
\* nothing on a later one, then lastSigInt = Date.now()
handleDecide ==
    /\ ~proc.exited
    /\ proc.hpc = "decide"
    /\ IF ~interrupted
       THEN /\ interrupted' = TRUE
            /\ proc' = [proc EXCEPT !.hpc = "idle", !.age = 0,
                                    !.armed = FALSE]
       ELSE /\ interrupted' = interrupted
            /\ IF hardStops(proc.forceTerm, proc.age)
               THEN proc' = [proc EXCEPT
                               !.hpc = "exiting",
                               !.exits = @ \cup
                                  {ExitCall(0, "canceled", "hardStop")}]
               ELSE proc' = [proc EXCEPT !.hpc = "idle", !.age = 0,
                                         !.armed = FALSE]
    /\ UNCHANGED crawlRest

\* main.ts: SIGABRT arms the forced exit
signalAbrt ==
    /\ ~proc.exited
    /\ ~proc.forceTerm
    /\ proc' = [proc EXCEPT !.forceTerm = TRUE]
    /\ UNCHANGED <<interrupted, crawlRest>>

\* TickMs milliseconds pass; an age beyond the gap needs no exact value
tick ==
    /\ ~proc.exited
    /\ proc.age <= SIGNAL_GAP_MS
    /\ proc' = [proc EXCEPT !.age = @ + TickMs]
    /\ UNCHANGED <<interrupted, crawlRest>>

\* the settings run() and the exits depend on: the defaults, and each of
\* restartsOnError, logErrorsToRedis and the other saveState values in
\* turn; a crawl whose limits can be reached; a crawl in which calls made
\* by a worker's loop can fail
DefaultConfig ==
    [restartsOnError |-> FALSE, logErrorsToRedis |-> FALSE,
     saveState |-> "always", limits |-> FALSE, errors |-> FALSE]

ProcConfigs ==
    {DefaultConfig,
     [DefaultConfig EXCEPT !.restartsOnError = TRUE],
     [DefaultConfig EXCEPT !.logErrorsToRedis = TRUE],
     [DefaultConfig EXCEPT !.saveState = "partial"],
     [DefaultConfig EXCEPT !.saveState = "never"],
     [DefaultConfig EXCEPT !.limits = TRUE],
     [DefaultConfig EXCEPT !.errors = TRUE]}

\* what the store holds as crawl status when the process starts: nothing
\* (a fresh crawl), done with waitOnDone off or on, or debug
StartConfigs ==
    {[status |-> "none", waitOnDone |-> FALSE],
     [status |-> "done", waitOnDone |-> FALSE],
     [status |-> "done", waitOnDone |-> TRUE],
     [status |-> "debug", waitOnDone |-> FALSE]}

\* the process starts with the seed page to crawl (a crawl the store
\* records as done has nothing left to crawl); the settings vary on a
\* fresh crawl, the stored status under the default settings
ProcInit ==
    /\ \E c \in ProcConfigs, st \in StartConfigs :
         /\ st.status = "none" \/ c = DefaultConfig
         /\ proc = [NoProc EXCEPT !.restartsOnError = c.restartsOnError,
                                  !.logErrorsToRedis = c.logErrorsToRedis,
                                  !.saveState = c.saveState,
                                  !.limits = c.limits,
                                  !.errors = c.errors,
                                  !.status = st.status,
                                  !.waitOnDone = st.waitOnDone,
                                  !.todo = IF st.status = "done"
                                           THEN 0 ELSE 1]
    /\ seeds = <<>>
    /\ scope = NoScope
    /\ pageLimit = 0
    /\ limitHit = FALSE
    /\ interrupted = FALSE
    /\ queue = <<>>
    /\ pending = {}
    /\ seen = {}
    /\ done = {}
    /\ failed = {}
    /\ excluded = {}
    /\ calls = 0
    /\ cpc = "addSeed"
    /\ sitemap = NoSitemap
    /\ ckpt = NoCkpt
    /\ arch = NoArch
    /\ links = NoLink
    /\ ingest = NoIngest
    /\ pc = [w \in Workers |-> "loop"]
    /\ data = [w \in Workers |-> NoData]
    /\ hist = NoHist
    /\ env = [expire |-> 0, exclusions |-> 0, faults |-> FALSE,
              redirect |-> FALSE, late |-> 0]
    /\ win = NoWin

ProcNext ==
    \/ crawlStart
    \/ operatorResumes
    \/ crawlThrows
    \/ \E w \in Workers : workerLoop(w)
    \/ \E w \in Workers : workerNext(w)
    \/ \E w \in Workers : workerPage(w)
    \/ \E w \in Workers : workerFatal(w)
    \/ \E w \in Workers : workerThrows(w)
    \/ redisGone
    \/ browserDisconnected
    \/ \E flag \in {"cancel", "stop"} : operatorSets(flag)
    \/ crawlSerialize
    \/ runFinally
    \/ \E c \in proc.exits : setStatus(c)
    \/ \E c \in proc.exits : processExit(c)
    \/ signalTerm
    \/ handleIsFinished
    \/ handleCheckCanceled
    \/ handleDecide
    \/ signalAbrt
    \/ tick

ProcSpec == ProcInit /\ [][ProcNext]_vars

\* ------------------------------------------------------------------------
\* One PageWorker and its browser window: reuse, crash, reopening
\* ------------------------------------------------------------------------
\* pages one window serves at most when alwaysReuse lifts the reuse limit
MaxServed == 7

\* the origins of the URLs the worker is handed
WinOrigins == {"a", "c"}

\* what the window model leaves alone
winRest == <<seeds, pageLimit, limitHit, interrupted, storeVars, calls, cpc,
             sitemap, pc, data, hist, env, scope, proc, ckpt, arch, links, ingest>>

\* PageWorker.isSameOrigin: the origin of page.url() against the origin of
\* the next URL; false without a page (new URL("") throws) and for the
\* blank page of a new window
isSameOrigin(page, url) == page \in WinOrigins /\ page = url

\* initPage: is the window reused for the next URL
reuseWindow(alwaysReuse, crashed, hasPage, reuseCount, same) ==
    IF alwaysReuse THEN ~crashed /\ hasPage
    ELSE reuseCount <= MAX_REUSE /\ same

\* runLoop: nextFromQueue hands the worker a URL of some origin
winNextUrl(o) ==
    /\ win.wpc = "loop"
    /\ win' = [win EXCEPT !.wpc = "init", !.url = o]
    /\ UNCHANGED winRest

\* initPage: reuse the window, or close it and open a new one (reuseCount
\* 1, crashed false, a blank page); fresh tells which of the two happened
winInitPage ==
    /\ win.wpc = "init"
    /\ IF reuseWindow(win.alwaysReuse, win.crashed, win.page # "none",
                      win.reuseCount, isSameOrigin(win.page, win.url))
       THEN win' = [win EXCEPT !.wpc = "crawl", !.fresh = FALSE]
       ELSE win' = [win EXCEPT !.wpc = "crawl", !.fresh = TRUE,
                               !.page = "blank", !.crashed = FALSE,
                               !.reuseCount = 1, !.served = 0,
                               !.first = NoHandler]
    /\ UNCHANGED winRest

\* loadPage: doCrawl = !recrawlUpdateData || shouldRecrawl(url, archivesDir);
\* shouldRecrawl is true when the page's file is not in the archive yet
doCrawl(recrawlUpdateData, archived) == ~recrawlUpdateData \/ ~archived

\* loadPage, page.on("request"): what the listener registered for the page
\* of handler h does with a document request; own says that the request's
\* URL is that page's URL.  Every path continues or aborts the request.
requestHandler(h, own, reqOrigin) ==
    IF own THEN "continue"
    ELSE IF ~h.doCrawl THEN "abort"
    ELSE IF reqOrigin = h.origin THEN "continue"
    ELSE "abort"

\* loadPage registers one more "request" listener on the window's page and
\* navigates.  Listeners run in the order they were registered and the
\* first continue() or abort() settles the request (a later call throws
\* "already handled", which the listener swallows), so the listener of the
\* first page loaded in this window decides; the URLs a window is
\* handed are distinct, so only that page's own request equals its URL.
loadPageRequest(w, archived) ==
    LET mine == [origin |-> w.url,
                 doCrawl |-> doCrawl(w.recrawlUpdateData, archived)]
        own == w.first = NoHandler
        h == IF own THEN mine ELSE w.first
    IN  [first |-> h, mainDoc |-> requestHandler(h, own, w.url)]

\* timedCrawlPage: crawlPage marks the window used, navigates it (a
\* redirect may end on another origin; an aborted main document leaves the
\* window where it was) and returns or throws; pageFinished; the window
\* is kept
winCrawlPage(landed) ==
    /\ win.wpc = "crawl"
    /\ ~win.crashed
    /\ win.served < MaxServed
    /\ \E archived \in BOOLEAN :
         LET r == loadPageRequest(win, archived)
         IN  win' = [win EXCEPT
                       !.wpc = "loop", !.served = @ + 1,
                       !.page = IF r.mainDoc = "abort" THEN @ ELSE landed,
                       !.reuseCount = IF win.alwaysReuse THEN @ ELSE @ + 1,
                       !.first = r.first, !.mainDoc = r.mainDoc]
    /\ UNCHANGED winRest

\* timedCrawlPage: the page deadline passes first: the race ends while
\* the crawlPage call, which nothing cancels, is still running (bg); the
\* window, navigated or not, is kept; pageFinished
winCrawlTimedOut(landed) ==
    /\ win.wpc = "crawl"
    /\ ~win.crashed
    /\ win.served < MaxServed
    /\ \E archived \in BOOLEAN :
         LET r == loadPageRequest(win, archived)
         IN  win' = [win EXCEPT
                       !.wpc = "loop", !.served = @ + 1,
                       !.page = IF r.mainDoc = "abort" THEN @ ELSE landed,
                       !.reuseCount = IF win.alwaysReuse THEN @ ELSE @ + 1,
                       !.bg = TRUE,
                       !.first = r.first, !.mainDoc = r.mainDoc]
    /\ UNCHANGED winRest

\* timedCrawlPage: the window's "error" event during the page, or a window
\* that had crashed before: crashBreak rejects and ends the race, the
\* crawlPage call is still running (bg); the catch block closes the page,
\* pageFinished
winCrawlCrashed ==
    /\ win.wpc = "crawl"
    /\ win' = [win EXCEPT !.wpc = "loop", !.page = "none", !.crashed = TRUE,
                            !.bg = TRUE]
    /\ UNCHANGED winRest

\* a crawlPage call left behind by an ended race returns or throws
winCrawlPageEnds ==
    /\ win.bg
    /\ win' = [win EXCEPT !.bg = FALSE]
    /\ UNCHANGED winRest

\* the window's "error" event between two pages
winCrashIdle ==
    /\ win.wpc \in {"loop", "init"}
    /\ win.page # "none"
    /\ ~win.crashed
    /\ win' = [win EXCEPT !.crashed = TRUE]
    /\ UNCHANGED winRest

WinInit ==
    /\ \E r \in BOOLEAN, u \in BOOLEAN :
         win = [NoWin EXCEPT !.alwaysReuse = r, !.recrawlUpdateData = u]
    /\ proc = NoProc
    /\ seeds = <<>>
    /\ scope = NoScope
    /\ pageLimit = 0
    /\ limitHit = FALSE
    /\ interrupted = FALSE
    /\ queue = <<>>
    /\ pending = {}
    /\ seen = {}
    /\ done = {}
    /\ failed = {}
    /\ excluded = {}
    /\ calls = 0
    /\ cpc = "addSeed"
    /\ sitemap = NoSitemap
    /\ ckpt = NoCkpt
    /\ arch = NoArch
    /\ links = NoLink
    /\ ingest = NoIngest
    /\ pc = [w \in Workers |-> "loop"]
    /\ data = [w \in Workers |-> NoData]
    /\ hist = NoHist
    /\ env = [expire |-> 0, exclusions |-> 0, faults |-> FALSE,
              redirect |-> FALSE, late |-> 0]

WinNext ==
    \/ \E o \in WinOrigins : winNextUrl(o)
    \/ winInitPage
    \/ \E landed \in WinOrigins : winCrawlPage(landed)
    \/ \E landed \in WinOrigins \cup {"blank"} : winCrawlTimedOut(landed)
    \/ winCrawlCrashed
    \/ winCrawlPageEnds
    \/ winCrashIdle

WinSpec == WinInit /\ [][WinNext]_vars

\* ------------------------------------------------------------------------
\* Checkpoint files: Crawler.serializeConfig with saveState "always"
\* (services/crawler.ts), called by pageFinished of every worker and, with
\* done = true, by crawl() after the workers have ended
\* ------------------------------------------------------------------------
MaxNow == 2
MaxHistory == 2
MaxInterval == 1

\* what the checkpoint model leaves alone
saveRest == <<seeds, pageLimit, limitHit, interrupted, storeVars, calls, cpc,
              sitemap, pc, data, hist, env, scope, proc, win, arch, links, ingest>>

\* secondsElapsed(startTime, now), in whole seconds
secondsElapsed(startTime, nowTime) == nowTime - startTime

\* serializeConfig: is the call let through (saveState "always")
saveDue(isDone, lastSaveTime, nowTime, saveStateInterval) ==
    isDone \/ ~(secondsElapsed(lastSaveTime, nowTime) < saveStateInterval)

\* serializeConfig: crawl-${ts}-${crawlId}.yaml, ts = now to the second
saveFilename(nowTime) == nowTime

\* serializeConfig up to the first await: the interval test, lastSaveTime,
\* the file name
serializeBegin(c, isDone) ==
    /\ ckpt.call[c].pc = "idle"
    /\ isDone => \A o \in SaveCallers : ckpt.call[o].pc = "idle"
    /\ saveDue(isDone, ckpt.lastSaveTime, ckpt.now, ckpt.saveStateInterval)
    /\ ckpt' = [ckpt EXCEPT
                  !.lastSaveTime = ckpt.now,
                  !.call[c] = [pc |-> "write",
                               filename |-> saveFilename(ckpt.now),
                               oldFilename |-> -1]]
    /\ UNCHANGED saveRest

\* serializeConfig: writeFile (a failure returns), saveStateFiles.push,
\* and when the list is longer than saveStateHistory, shift
serializeWrite(c, ok) ==
    /\ ckpt.call[c].pc = "write"
    /\ LET f == ckpt.call[c].filename
           files == Append(ckpt.saveStateFiles, f)
           over == Len(files) > ckpt.saveStateHistory
       IN  IF ~ok
           THEN ckpt' = [ckpt EXCEPT !.call[c] = NoSave]
           ELSE ckpt' = [ckpt EXCEPT
                           !.disk = @ \cup {f},
                           !.written =
                               Append(SelectSeq(@, LAMBDA g : g # f), f),
                           !.saveStateFiles =
                               IF over THEN Tail(files) ELSE files,
                           !.call[c] =
                               IF over
                               THEN [pc |-> "unlink", filename |-> f,
                                     oldFilename |-> Head(files)]
                               ELSE NoSave]
    /\ UNCHANGED saveRest

\* serializeConfig: unlink(oldFilename)
serializeUnlink(c) ==
    /\ ckpt.call[c].pc = "unlink"
    /\ ckpt' = [ckpt EXCEPT !.disk = @ \ {ckpt.call[c].oldFilename},
                            !.call[c] = NoSave]
    /\ UNCHANGED saveRest

\* a second passes
saveTick ==
    /\ ckpt.now < MaxNow
    /\ ckpt' = [ckpt EXCEPT !.now = @ + 1]
    /\ UNCHANGED saveRest

SaveInit ==
    /\ \E h \in 1..MaxHistory, i \in 0..MaxInterval :
         ckpt = [NoCkpt EXCEPT !.saveStateHistory = h,
                               !.saveStateInterval = i]
    /\ arch = NoArch
    /\ links = NoLink
    /\ ingest = NoIngest
    /\ win = NoWin
    /\ proc = NoProc
    /\ seeds = <<>>
    /\ scope = NoScope
    /\ pageLimit = 0
    /\ limitHit = FALSE
    /\ interrupted = FALSE
    /\ queue = <<>>
    /\ pending = {}
    /\ seen = {}
    /\ done = {}
    /\ failed = {}
    /\ excluded = {}
    /\ calls = 0
    /\ cpc = "addSeed"
    /\ sitemap = NoSitemap
    /\ pc = [w \in Workers |-> "loop"]
    /\ data = [w \in Workers |-> NoData]
    /\ hist = NoHist
    /\ env = [expire |-> 0, exclusions |-> 0, faults |-> FALSE,
              redirect |-> FALSE, late |-> 0]

SaveNext ==
    \/ \E c \in SaveCallers, isDone \in BOOLEAN : serializeBegin(c, isDone)
    \/ \E c \in SaveCallers, ok \in BOOLEAN : serializeWrite(c, ok)
    \/ \E c \in SaveCallers : serializeUnlink(c)
    \/ saveTick

SaveSpec == SaveInit /\ [][SaveNext]_vars

\* ------------------------------------------------------------------------
\* The archive directory: downloadResource / downloadResourceFromUrl
\* (util/storage.ts), run in parallel by downloadAllResources and by the
\* workers
\* ------------------------------------------------------------------------
MaxDownloads == 4

\* what the archive model leaves alone
archRest == <<seeds, pageLimit, limitHit, interrupted, storeVars, calls, cpc,
              sitemap, pc, data, hist, env, scope, proc, win, ckpt, links, ingest>>

\* shouldWriteFile: true unless fsp.access finds the file
shouldWriteFile(exists) == ~exists

\* downloadResource: getResourcePath, then await mkdir
downloadStart(d, path) ==
    /\ arch.dl[d].pc = "idle"
    /\ arch.started < MaxDownloads
    /\ arch' = [arch EXCEPT
                  !.started = @ + 1,
                  !.dl[d] = [pc |-> "check", path |-> path,
                             write |-> FALSE]]
    /\ UNCHANGED archRest

\* downloadResource: await shouldWriteFile(fullPath)
downloadCheck(d) ==
    /\ arch.dl[d].pc = "check"
    /\ arch' = [arch EXCEPT
                  !.dl[d].pc = "write",
                  !.dl[d].write =
                      shouldWriteFile(arch.writes[arch.dl[d].path] > 0)]
    /\ UNCHANGED archRest

\* downloadResource: await fsp.writeFile(fullPath, buffer) if the check
\* said so, and return
downloadWrite(d) ==
    /\ arch.dl[d].pc = "write"
    /\ arch' = [arch EXCEPT
                  !.writes[arch.dl[d].path] =
                      IF arch.dl[d].write THEN @ + 1 ELSE @,
                  !.dl[d] = NoDownload]
    /\ UNCHANGED archRest

ArchInit ==
    /\ arch = NoArch
    /\ links = NoLink
    /\ ingest = NoIngest
    /\ ckpt = NoCkpt
    /\ win = NoWin
    /\ proc = NoProc
    /\ seeds = <<>>
    /\ scope = NoScope
    /\ pageLimit = 0
    /\ limitHit = FALSE
    /\ interrupted = FALSE
    /\ queue = <<>>
    /\ pending = {}
    /\ seen = {}
    /\ done = {}
    /\ failed = {}
    /\ excluded = {}
    /\ calls = 0
    /\ cpc = "addSeed"
    /\ sitemap = NoSitemap
    /\ pc = [w \in Workers |-> "loop"]
    /\ data = [w \in Workers |-> NoData]
    /\ hist = NoHist
    /\ env = [expire |-> 0, exclusions |-> 0, faults |-> FALSE,
              redirect |-> FALSE, late |-> 0]

ArchNext ==
    \/ \E d \in Downloads, path \in ArchPaths : downloadStart(d, path)
    \/ \E d \in Downloads : downloadCheck(d)
    \/ \E d \in Downloads : downloadWrite(d)

ArchSpec == ArchInit /\ [][ArchNext]_vars

\* ------------------------------------------------------------------------
\* Properties
\* ------------------------------------------------------------------------
\* the positions of runLoop at which a worker holds a dequeued page
Busy == {"scope", "init", "load", "extract", "finish"}

\* C1: at every moment each URL is in progress at no more than one worker:
\* a URL has at most one lock and is never queued while locked, and
\* nextFromQueue hands a worker a URL only when no other worker holds a
\* lock on it that is still within its deadline.
C1_LockExclusive ==
    /\ [](/\ \A p, q \in pending : p.url = q.url => p = q
          /\ \A i \in 1..Len(queue) :
                \A p \in pending : p.url # queue[i].url)
    /\ [][\A w \in Workers :
            (pc[w] = "next" /\ pc'[w] = "scope") =>
                /\ \A p \in pending : p.url = data'[w].url => p.expired
                /\ \E p \in pending' :
                      p.url = data'[w].url /\ p.owner = w /\ ~p.expired]_vars

\* C1 witness: a worker has taken over the expired lock of a URL that the
\* worker it was first handed to is still crawling.
C1_Takeover ==
    \E w, v \in Workers :
        /\ w # v
        /\ pc[w] \in Busy /\ pc[v] \in Busy
        /\ data[w].url = data[v].url
        /\ ownLock(data[w].url, w) # {}
        /\ hist.reclaimed[data[w].url] = 1

\* C2: across a crawl each normalized URL is added to the queue at most
\* once: only normalized URLs are enqueued, none more than once, the queue
\* holds no URL twice, an addToQueue for a URL already seen adds nothing,
\* and a URL is taken from the queue no more often than it was put there.
C2_EnqueuedOnce ==
    /\ [](/\ \A u \in HttpUrls :
                /\ hist.enq[u] <= 1
                /\ (hist.enq[u] = 1 => u \in NormUrls /\ u \in seen)
                /\ hist.deq[u] - hist.reclaimed[u] <= hist.enq[u]
          /\ \A i, j \in 1..Len(queue) :
                queue[i].url = queue[j].url => i = j
          /\ \A i \in 1..Len(queue) : queue[i].url \in NormUrls)
    /\ [][\A u \in seen :
            /\ hist.enq'[u] = hist.enq[u]
            /\ Cardinality({i \in 1..Len(queue') : queue'[i].url = u})
                 <= Cardinality({i \in 1..Len(queue) : queue[i].url = u})]_vars

\* C2 witness: a page whose links are being extracted links to a URL that
\* was enqueued once and is already done; its addToQueue answers DUPE_URL.
C2_DupeLink ==
    \E w \in Workers, raw \in RawUrls :
        /\ pc[w] = "extract"
        /\ ~limitHit
        /\ LET q == queueInScopeUrls(data[w].seedId, raw, data[w].depth,
                                     data[w].extraHops, FALSE)
           IN  /\ q.ok
               /\ q.url \in done
               /\ hist.enq[q.url] = 1
               /\ addToQueue(Entry(q.url, q.seedId, q.depth, q.extraHops),
                             pageLimit) = DUPE_URL

\* the number of URLs the store holds in any state
StoreTotal ==
    Len(queue) + Cardinality(pending) + Cardinality(done)
    + Cardinality(failed) + Cardinality(excluded)

\* C3: when pageLimit > 0, the number of URLs that are queued, in
\* progress, done, failed or excluded never exceeds pageLimit.
C3_PageLimit == pageLimit > 0 => StoreTotal <= pageLimit

\* C3 witness: the store is full to the limit and an addToQueue has been
\* answered LIMIT_HIT.
C3_LimitReached ==
    pageLimit > 0 /\ StoreTotal = pageLimit /\ hist.limitAnswered

\* C4: once an addToQueue has answered LIMIT_HIT, limitHit is set as soon
\* as the queueUrl call that got the answer resumes, limitHit is never
\* cleared, and no later queueUrl call adds a URL.
C4_LimitHitSticky ==
    /\ [](hist.limitAnswered => (limitHit \/ calls > 0))
    /\ [](limitHit => hist.limitAnswered)
    /\ [][limitHit => limitHit']_vars
    /\ [][hist.limitAnswered =>
            (seen' = seen /\ Len(queue') <= Len(queue)
             /\ hist.enq' = hist.enq)]_vars

\* C4 witness: limitHit is set while a page being extracted links to a URL
\* that is in scope and not yet seen: that queueUrl call returns false.
C4_LaterCall ==
    \E w \in Workers, raw \in RawUrls :
        /\ pc[w] = "extract"
        /\ limitHit
        /\ LET q == queueInScopeUrls(data[w].seedId, raw, data[w].depth,
                                     data[w].extraHops, FALSE)
           IN  q.ok /\ q.url \notin seen

\* the normalized form of the URL of the direct isIncluded call
ScopeUrl == stripHash(seeds[scope.seed], scope.url)
\* that URL matches an exclude / an include regex of the seed
ScopeUrlExcluded ==
    \E i \in 1..Len(seeds[scope.seed].exclude) :
        ScopeUrl \in seeds[scope.seed].exclude[i]
ScopeUrlIncluded ==
    \E i \in 1..Len(seeds[scope.seed].include) :
        ScopeUrl \in seeds[scope.seed].include[i]
\* the call got as far as the scope rules: the URL parses as http(s)
ScopeUrlParsed == scope.called /\ scope.url.scheme \in {"http", "https"}
\* in scope, as the claims define it
ScopeUrlInScope ==
    scope.depth <= seeds[scope.seed].maxDepth /\ ScopeUrlIncluded

\* C5 (amended): isIncluded never accepts a URL other than the seed's own
\* URL whose normalized form matches an exclude regex, whatever its include
\* match, depth or extra hops; the seed's own URL is accepted even when an
\* exclude regex matches it.
C5_ExclusionWinsExceptSeedUrl ==
    ScopeUrlParsed =>
        /\ (ScopeUrlExcluded /\ ScopeUrl # seeds[scope.seed].url)
              => ~scope.res.ok
        /\ ScopeUrl = seeds[scope.seed].url
              => scope.res = Accept(ScopeUrl, FALSE)

\* C5 witness: a URL that an include regex matches, within the depth, is
\* rejected because an exclude regex matches it too.
C5_ExcludedRejected ==
    /\ ScopeUrlParsed
    /\ ScopeUrlInScope
    /\ ScopeUrlExcluded
    /\ ScopeUrl # seeds[scope.seed].url
    /\ ~scope.res.ok

\* C5 as claimed: isIncluded never accepts a URL whose normalized form
\* matches an exclude regex.
C5_ExclusionAlwaysWins ==
    (ScopeUrlParsed /\ ScopeUrlExcluded) => ~scope.res.ok

\* C6 (amended): a URL other than the seed's own URL that is not in scope
\* and matches no exclude regex is accepted, with isOOS = true, exactly
\* when noOOS is false, seed.maxExtraHops is not 0 and extraHops <=
\* seed.maxExtraHops; it is rejected otherwise.
C6_OutOfScopeNeedsHops ==
    (/\ ScopeUrlParsed
     /\ ScopeUrl # seeds[scope.seed].url
     /\ ~ScopeUrlInScope
     /\ ~ScopeUrlExcluded)
    => IF /\ ~scope.noOOS
          /\ seeds[scope.seed].maxExtraHops # 0
          /\ scope.extraHops <= seeds[scope.seed].maxExtraHops
       THEN scope.res = Accept(ScopeUrl, TRUE)
       ELSE scope.res = Reject

\* C6 witness: an out-of-scope URL is accepted with isOOS = true.
C6_AcceptedOOS ==
    /\ ScopeUrlParsed
    /\ ScopeUrl # seeds[scope.seed].url
    /\ ~ScopeUrlInScope
    /\ ~ScopeUrlExcluded
    /\ scope.res = Accept(ScopeUrl, TRUE)

\* C6 as claimed: a URL that is not in scope and matches no exclude regex
\* is accepted with isOOS = true exactly when noOOS is false and
\* extraHops <= seed.maxExtraHops.
C6_OutOfScopeAsClaimed ==
    (ScopeUrlParsed /\ ~ScopeUrlInScope /\ ~ScopeUrlExcluded)
    => IF ~scope.noOOS /\ scope.extraHops <= seeds[scope.seed].maxExtraHops
       THEN scope.res = Accept(ScopeUrl, TRUE)
       ELSE scope.res = Reject

\* C7: every queue entry has 0 <= extraHops <= seed.maxExtraHops, and a
\* link accepted as out-of-scope was found on a page with fewer extra hops
\* than the seed allows.
C7_ExtraHopsBounded ==
    /\ \A i \in 1..Len(queue) :
          /\ 0 <= queue[i].extraHops
          /\ queue[i].extraHops <= seeds[queue[i].seedId].maxExtraHops
    /\ \A p \in pending :
          0 <= p.extraHops /\ p.extraHops <= seeds[p.seedId].maxExtraHops
    /\ \A u \in HttpUrls :
          hist.enq[u] > 0 =>
             /\ 0 <= hist.origin[u].extraHops
             /\ hist.origin[u].extraHops <= seeds[1].maxExtraHops
             /\ (hist.origin[u].src = "link" /\ hist.origin[u].isOOS)
                   => hist.origin[u].phops < seeds[1].maxExtraHops

\* C7 witness: with maxExtraHops = 1, a page reached by an out-of-scope hop
\* has its links extracted and links to an unseen out-of-scope URL, which
\* the scope check rejects.
C7_SecondHopRejected ==
    \E w \in Workers, raw \in HttpUrls :
        /\ pc[w] = "extract"
        /\ seeds[1].maxExtraHops = 1
        /\ data[w].extraHops = 1
        /\ hist.origin[data[w].url].isOOS
        /\ raw \in NormUrls /\ raw \notin seen
        /\ ~limitHit
        /\ \A i \in 1..Len(seeds[1].include) : raw \notin seeds[1].include[i]
        /\ \A i \in 1..Len(seeds[1].exclude) : raw \notin seeds[1].exclude[i]
        /\ ~queueInScopeUrls(data[w].seedId, raw, data[w].depth,
                             data[w].extraHops, FALSE).ok

\* C8: a URL enqueued from a link found on a page at (depth d, extraHops h)
\* is enqueued with depth d + 1, and with extraHops h + 1 if the scope
\* check accepted it as out-of-scope and h if it accepted it as in-scope.
C8_ChildDepthAndHops ==
    \A u \in HttpUrls :
        hist.origin[u].src = "link" =>
            /\ hist.origin[u].depth = hist.origin[u].pdepth + 1
            /\ hist.origin[u].extraHops =
                  IF hist.origin[u].isOOS
                  THEN hist.origin[u].phops + 1
                  ELSE hist.origin[u].phops
            /\ \A i \in 1..Len(queue) :
                  queue[i].url = u =>
                     /\ queue[i].depth = hist.origin[u].depth
                     /\ queue[i].extraHops = hist.origin[u].extraHops

\* C8 witness: one crawl has enqueued a link accepted as in-scope and a
\* link accepted as out-of-scope.
C8_BothKindsQueued ==
    \E u, v \in HttpUrls :
        /\ hist.origin[u].src = "link" /\ hist.origin[u].isOOS
        /\ hist.origin[v].src = "link" /\ ~hist.origin[v].isOOS

C10_DoneIffFullyLoaded ==
    /\ [][\A w \in Workers :
            (pc[w] = "finish" /\ pc'[w] # "finish") =>
               /\ pc'[w] = "loop"
               /\ IF \E p \in pending : p.url = data[w].url /\ p.owner = w
                  THEN IF data[w].loadState >= FULL_PAGE_LOADED
                       THEN /\ done' = done \cup {data[w].url}
                            /\ failed' = failed
                       ELSE /\ failed' = failed \cup {data[w].url}
                            /\ done' = done
                  ELSE done' = done /\ failed' = failed]_vars
    /\ [][(done' # done \/ failed' # failed) =>
            \E w \in Workers : pc[w] = "finish" /\ pc'[w] = "loop"]_vars
    /\ [][\A w \in Workers :
            pc[w] \in {"load", "extract"} =>
               pc'[w] \in {pc[w], "extract", "finish"}]_vars
    /\ [](done \cap failed = {})

\* C10 witness: one crawl has recorded a page done and another failed.
C10_DoneAndFailed == done # {} /\ failed # {}

\* C11 (as claimed): once the crawl is interrupted and every worker has
\* left its loop, no URL is still in progress: each dequeued URL was marked
\* finished, failed or excluded, or is back in the queue.
C11_NoneLeftLocked ==
    (interrupted /\ \A w \in Workers : pc[w] = "exited") => pending = {}

\* the step in which handleTerminate takes its graceful branch
GracefulStep == proc.hpc = "decide" /\ proc'.hpc # "decide" /\ ~interrupted

RepeatedSignalStep ==
    proc.hpc = "decide" /\ proc'.hpc # "decide" /\ interrupted

\* the hard stop: setStatusAndExit(0, "canceled") called by handleTerminate
HardStopCall == ExitCall(0, "canceled", "hardStop")

\* C13 (as claimed): a SIGINT/SIGTERM within 200 ms of the previous one,
\* with the crawl already interrupted, causes the hard stop.
C13_HardStopWithinGap ==
    [][(RepeatedSignalStep /\ proc.age <= SIGNAL_GAP_MS)
          => HardStopCall \in proc'.exits]_vars

\* C13: a SIGINT/SIGTERM that finds the crawl already interrupted causes
\* the hard stop exactly when more than 200 ms have passed since the
\* previous signal was handled (or SIGABRT has set forceTerm): the handler
\* calls setStatusAndExit(0, "canceled"), and when that call ends the
\* process its status canceled has been written and the exit code is 0.
\* A signal within 200 ms only renews lastSigInt.
C13_HardStopAfterGap ==
    /\ [][RepeatedSignalStep =>
            IF proc.forceTerm \/ proc.age > SIGNAL_GAP_MS
            THEN /\ proc'.exits = proc.exits \cup {HardStopCall}
                 /\ proc'.hpc = "exiting"
            ELSE /\ proc'.exits = proc.exits
                 /\ proc'.hpc = "idle" /\ proc'.age = 0
                 /\ ~proc'.exited]_vars
    /\ [][(proc'.exited /\ ~proc.exited /\ proc'.via = "hardStop") =>
            /\ proc'.exitCode = 0
            /\ \E c \in proc.exits :
                  c.via = "hardStop" /\ c.written /\ c.status = "canceled"]_vars

\* C13 witness: with forceTerm unset a repeated signal has stopped the
\* process: status canceled, exit code 0.
C13_HardStopped ==
    /\ proc.exited /\ proc.via = "hardStop" /\ ~proc.forceTerm
    /\ proc.status = "canceled" /\ proc.exitCode = 0

\* C14 (as claimed): a SIGINT or SIGTERM that arrives after SIGABRT is a
\* hard stop when handleTerminate decides about it, whatever the time
\* since the last signal and whether or not the crawl had been interrupted
\* before.
C14_ForceTermAlwaysStops ==
    [][(proc.hpc = "decide" /\ proc'.hpc # "decide" /\ proc.armed)
          => HardStopCall \in proc'.exits]_vars

\* C15 (as claimed): whenever the process has exited (the exit of a
\* handler that found no crawler aside), a final checkpoint has been
\* written; stated for saveState = always, the setting under which every
\* serializeConfig(true) writes.
C15_CheckpointBeforeExit ==
    (proc.exited /\ proc.via # "noCrawler" /\ proc.saveState = "always")
       => proc.checkpoint

\* C16 (as claimed): whenever the process has exited (the exit of a handler
\* that found no crawler and no store aside), the status in the store is
\* one of done, failing, failed, interrupted, canceled; this includes the
\* exits of Logger.fatal.
C16_FinalStatusBeforeExit ==
    (proc.exited /\ proc.via # "noCrawler") => proc.status \in FinalStatuses

\* C17: when run() reaches setStatusAndExit it hands over exit code 0 with
\* status done for a finished crawl, else 0 with canceled for a canceled
\* one, else 0 with done for a stopped one, else 10 (browser disconnected)
\* or 11 with interrupted for an interrupted one, else 0 with done; after
\* an exception of crawl() 9 with failing or failed.  The process exits
\* through that call with its exit code, after its status write.
C17_RunExitCodes ==
    /\ [][(proc.rpc # "exiting" /\ proc'.rpc = "exiting") =>
            \E c \in proc'.exits :
               /\ proc'.exits = proc.exits \cup {c}
               /\ c.via = "run" /\ ~c.written
               /\ IF proc'.threw
                  THEN c.code = 9 /\ c.status \in {"failing", "failed"}
                  ELSE IF procFinished
                       THEN c.code = 0 /\ c.status = "done"
                  ELSE IF proc.canceled
                       THEN c.code = 0 /\ c.status = "canceled"
                  ELSE IF proc.stopped
                       THEN c.code = 0 /\ c.status = "done"
                  ELSE IF interrupted
                       THEN /\ c.status = "interrupted"
                            /\ c.code = IF proc.browserCrashed
                                        THEN 10 ELSE 11
                  ELSE c.code = 0 /\ c.status = "done"]_vars
    /\ [][(proc'.exited /\ ~proc.exited /\ proc'.via = "run") =>
            \E c \in proc.exits :
               c.via = "run" /\ c.written /\ proc'.exitCode = c.code]_vars
    /\ [](\A c \in proc.exits :
            c.via = "run" =>
               \/ c.code = 0 /\ c.status \in {"done", "canceled"}
               \/ c.code = 9 /\ c.status \in {"failing", "failed"}
               \/ c.code \in {10, 11} /\ c.status = "interrupted")

\* C17 witness: an interrupted, unfinished crawl whose browser had
\* disconnected has exited through run() with code 10, status interrupted.
C17_ExitedTen ==
    /\ proc.exited /\ proc.via = "run" /\ ~proc.threw
    /\ proc.exitCode = 10 /\ proc.status = "interrupted"
    /\ proc.browserCrashed /\ ~procFinished

\* the exits made by Logger.fatal
FatalVias == {"fatalSeed", "fatalLimit", "fatalWindow", "fatalRedis"}

\* C18 (as claimed): every fatal termination exits with code 17, or with 0
\* when restartsOnError is set.
C18_FatalExitsDefaultCode ==
    (proc.exited /\ proc.via \in FatalVias)
       => proc.exitCode = IF proc.restartsOnError THEN 0 ELSE 17

\* C18: a fatal termination exits with code 17, or with 0 when
\* restartsOnError is set, except that a failed seed page exits with code
\* 1 whatever restartsOnError says.
C18_FatalExitsDefaultCodeButSeed ==
    (proc.exited /\ proc.via \in FatalVias)
       => proc.exitCode = IF proc.via = "fatalSeed" THEN 1
                          ELSE IF proc.restartsOnError THEN 0 ELSE 17

\* C18 witness: under restartsOnError the failed-count threshold has ended
\* the process with exit code 0.
C18_FatalRestartExit ==
    /\ proc.exited /\ proc.via = "fatalLimit"
    /\ proc.restartsOnError /\ proc.exitCode = 0

\* the step in which worker w records the page it gave up at the deadline
TimedOutFinish(w) ==
    /\ pc[w] = "finish" /\ pc'[w] = "loop"
    /\ data[w].timedOut
    /\ \E p \in pending : p.url = data[w].url /\ p.owner = w

\* C19 (as claimed): a page whose processing ran into the page deadline is
\* recorded as failed, whatever load state it had reached.
C19_TimedOutPageFailed ==
    [][\A w \in Workers :
          TimedOutFinish(w) =>
             failed' = failed \cup {data[w].url} /\ done' = done]_vars

\* C19: when the page deadline passes the worker gives the page up with
\* the load state reached so far and goes on to pageFinished, which
\* records the page as failed when that state is below FULL_PAGE_LOADED
\* and as done otherwise.
C19_TimedOutPageByLoadState ==
    /\ [][\A w \in Workers :
            (pc[w] \in {"load", "extract"} /\ pc'[w] = "finish"
               /\ data'[w].timedOut)
            => /\ data'[w].url = data[w].url
               /\ data'[w].loadState = data[w].loadState]_vars
    /\ [][\A w \in Workers :
            TimedOutFinish(w) =>
               IF data[w].loadState >= FULL_PAGE_LOADED
               THEN done' = done \cup {data[w].url} /\ failed' = failed
               ELSE failed' = failed \cup {data[w].url} /\ done' = done]_vars

\* C19 witness: a page that only reached CONTENT_LOADED has run into the
\* deadline during link extraction and is about to be recorded.
C19_TimedOutBeforeFullLoad ==
    \E w \in Workers :
       /\ pc[w] = "finish" /\ data[w].timedOut
       /\ data[w].loadState = CONTENT_LOADED
       /\ \E p \in pending : p.url = data[w].url /\ p.owner = w

\* C20 (as claimed, for a worker without alwaysReuse): when initPage keeps
\* the window for the next page, the window has not reported a crash, its
\* origin is the origin of the next URL, and it has served fewer than
\* MAX_REUSE pages.
C20_ReusedWindowIsSound ==
    [][(win.wpc = "init" /\ win'.wpc = "crawl" /\ ~win.alwaysReuse
          /\ ~win'.fresh)
       => /\ ~win.crashed
          /\ win.page = win.url
          /\ win.served < MAX_REUSE]_vars

\* C21 (as claimed): while the worker processes a page, no crawlPage call
\* of an earlier page of this worker is still running, also after a page
\* deadline or a window crash.
C21_OnePageAtATime == win.wpc = "crawl" => ~win.bg

\* pages of the origin a URL is on
SameOriginUrls(url) ==
    {u \in NormUrls : originOf(u.page) = originOf(url.page)}

\* C22 (as claimed): the extra seed made for a redirected seed page carries
\* the original seed's scope settings with the landed URL, and while the
\* page's links are extracted under it a link on the landed origin that is
\* within the depth limit and not excluded is accepted as in scope.
C22_RedirectSeedScoped ==
    /\ \A i \in 2..Len(seeds) :
          /\ seeds[i].maxDepth = seeds[1].maxDepth
          /\ seeds[i].maxExtraHops = seeds[1].maxExtraHops
          /\ seeds[i].exclude = seeds[1].exclude
          /\ \A k \in 1..Len(seeds[1].include) :
                \E j \in 1..Len(seeds[i].include) :
                  seeds[i].include[j] = seeds[1].include[k]
    /\ \A w \in Workers :
          (pc[w] = "extract" /\ data[w].seedId > 1) =>
            \A u \in SameOriginUrls(seeds[data[w].seedId].url) :
              (/\ seeds[1].include = HostInclude
               /\ childDepth(data[w].depth) <= seeds[1].maxDepth
               /\ ~isExcluded(seeds[1], u)) =>
                LET q == queueInScopeUrls(data[w].seedId, u, data[w].depth,
                                          data[w].extraHops, FALSE)
                IN  q.ok /\ ~q.isOOS
\* C23: for one sitemap ingestion markSitemapDone is called exactly once,
\* by the first "end" event of the sitemap: not before the end (also not
\* when the promise was resolved early) and not again by a later "end".
C23_SitemapDoneOnce ==
    sitemap.marks = (IF sitemap.ends > 0 THEN 1 ELSE 0)

\* the promise was resolved early, the reader went on and ended twice
C23_EarlyThenEnded ==
    sitemap.early /\ sitemap.ends = MaxEnds /\ sitemap.marks = 1
\* URLs that were enqueued by the sitemap reader
SitemapQueued == {u \in HttpUrls : hist.origin[u].src = "sitemap"}

\* C24 (as claimed): every sitemap URL is checked by isIncluded with depth
\* 0, extraHops 0 and noOOS true and, if accepted, is enqueued with depth 0
\* and extraHops 0.
C24_SitemapUrlsAtDepthZero ==
    /\ sitemap.count > 0 =>
          sitemap.chk = [depth |-> 0, extraHops |-> 0, noOOS |-> TRUE]
    /\ \A u \in SitemapQueued :
          hist.origin[u].depth = 0 /\ hist.origin[u].extraHops = 0

\* C24 (amended): every sitemap URL is checked by isIncluded with depth 1,
\* extraHops 1 and noOOS true (as a child of a depth-0 page) and, if
\* accepted, is enqueued with depth 1 and extraHops 0.
C24_SitemapUrlsAtDepthOne ==
    /\ sitemap.count > 0 =>
          sitemap.chk = [depth |-> 1, extraHops |-> 1, noOOS |-> TRUE]
    /\ \A u \in SitemapQueued :
          /\ hist.origin[u].depth = 1 /\ hist.origin[u].extraHops = 0
          /\ ~hist.origin[u].isOOS

\* a sitemap URL was accepted and enqueued
C24_SitemapUrlQueued == sitemap.count > 0 /\ SitemapQueued # {}
\* C25 (as claimed): the request for the main document of the page being
\* loaded is never aborted by the request listeners, whatever
\* recrawlUpdateData is and whether the window is new or reused.
C25_MainDocumentAllowed == win.mainDoc # "abort"
\* no serializeConfig call is under way
SaveQuiet == \A c \in SaveCallers : ckpt.call[c].pc = "idle"

\* the n names written last
LastWritten(n) ==
    {ckpt.written[i] : i \in {j \in 1..Len(ckpt.written) :
                                j > Len(ckpt.written) - n}}

\* C26 (as claimed): after every checkpoint write the checkpoint files of
\* this process that remain on disk are exactly the saveStateHistory most
\* recently written ones (all of them while fewer were written).
C26_KeepsNewestCheckpoints ==
    SaveQuiet => ckpt.disk = LastWritten(ckpt.saveStateHistory)

\* C28 (as claimed): a file of the archive directory is written at most
\* once per path, also when downloads of the same path overlap.
C28_WrittenOncePerPath == \A p \in ArchPaths : arch.writes[p] <= 1
\* the process was ended by Logger.fatal at a page finish
FailedAtPageFinish ==
    proc.exited /\ proc.via \in {"fatalSeed", "fatalLimit"}

C29_ExitsOnlyWhenIdle ==
    [][\A w \in Workers :
         (pc[w] \in {"numPending", "queueSize"} /\ pc'[w] = "exited") =>
            (numPending = 0 /\ queueSize = 0)]_vars
\* isIncluded rejects the entry worker w has just dequeued
RejectedAtDequeue(w) ==
    /\ pc[w] = "scope"
    /\ ~isIncluded(seeds[data[w].seedId], data[w].url, data[w].depth,
                   data[w].extraHops, FALSE).ok

\* C30: a dequeued URL that isIncluded rejects at dequeue time is marked
\* excluded by the worker's next step (the mark of a worker that still
\* holds the URL's lock), which takes the worker back to the loop head
\* without navigating and marks nothing finished or failed; no excluded URL
\* is ever marked finished or failed.
C30_RejectedIsExcluded ==
    /\ [][\A w \in Workers :
            (RejectedAtDequeue(w) /\ pc'[w] # pc[w]) =>
               /\ pc'[w] = "loop"
               /\ ownLock(data[w].url, w) # {} => data[w].url \in excluded'
               /\ done' = done /\ failed' = failed]_vars
    /\ [](excluded \cap (done \cup failed) = {})

\* an exclusion added after the URL was enqueued made the recheck reject it
C30_ExcludedAfterDequeue ==
    /\ excluded # {}
    /\ \E u \in excluded : hist.deq[u] > 0 /\ isExcluded(seeds[1], u)

\* a link on the page worker w holds passes the scope check of
\* queueInScopeUrls with a URL other than the URL of the page's seed
LinkAccepted(w) ==
    \E raw \in RawUrls :
        LET d == data[w]
            q == queueInScopeUrls(d.seedId, raw, d.depth, d.extraHops, FALSE)
        IN  q.ok /\ q.url # seeds[d.seedId].url

\* C31: when loadPage skips link extraction for an HTML page (the page is
\* at max depth: crawlPage goes from the load straight to the page finish),
\* no link on that page other than the seed's own URL would have passed
\* the scope check of queueInScopeUrls.
C31_SkippedPageHasNoAcceptableLink ==
    [][\A w \in Workers :
         (pc[w] = "load" /\ pc'[w] = "finish" /\ data'[w].isHTMLPage) =>
            ~LinkAccepted(w)']_vars

\* a page at depth 1 that is at max depth has been loaded as an HTML page
\* and its links were not extracted
C31_SkippedAtMaxDepth ==
    \E w \in Workers :
        /\ pc[w] = "finish"
        /\ data[w].isHTMLPage
        /\ data[w].depth = 1
        /\ data[w].depth >= seeds[data[w].seedId].maxDepth
        /\ data[w].extraHops >= seeds[data[w].seedId].maxExtraHops

\* the behaviors of the page worker w holds have run with outcome b
BehaviorsRan(w, b) == data[w].behaviorLog = b

\* C32 (as claimed): after a behaviors run in which the script of a frame
\* threw, which failed as a whole or which timed out, the page's loadState
\* is EXTRACTION_DONE (not BEHAVIORS_DONE), a warning was logged and the
\* worker goes on to the page finish.
C32_FailedBehaviorsNotPromoted ==
    \A w \in Workers :
        data[w].behaviorLog \in {"frameThrows", "runFails", "timeout"} =>
            data[w].loadState = EXTRACTION_DONE /\ pc[w] = "finish"

\* C32 (amended): after a behaviors run which failed as a whole or which
\* timed out, the page's loadState is EXTRACTION_DONE (not BEHAVIORS_DONE),
\* a warning was logged and the worker goes on to the page finish; after a
\* run in which the script of a frame threw a warning was logged, the
\* worker goes on to the page finish and the loadState is BEHAVIORS_DONE.
C32_FailedRunNotPromoted ==
    \A w \in Workers :
        /\ (BehaviorsRan(w, "runFails") \/ BehaviorsRan(w, "timeout")) =>
              data[w].loadState = EXTRACTION_DONE /\ pc[w] = "finish"
        /\ BehaviorsRan(w, "frameThrows") =>
              data[w].loadState = BEHAVIORS_DONE /\ pc[w] = "finish"

\* a behaviors run has timed out, and one has failed as a whole
C32_BehaviorsTimedOutAndFailed ==
    /\ BehaviorsRan(1, "timeout")
    /\ BehaviorsRan(2, "runFails")

\* C33: a crawl whose stored status was done when crawl() read it has
\* enqueued no seed and started no worker, and it is parked only with
\* waitOnDone (without it crawl() returns); while the status read last, or
\* the stored status, is debug no seed is enqueued and no worker started.
C33_DoneOrDebugStartsNothing ==
    /\ proc.initState = "done" =>
          /\ ~proc.seeded /\ ~proc.started
          /\ proc.rpc \in (IF proc.waitOnDone THEN {"parked"}
                           ELSE {"outcome", "exiting"})
    /\ proc.rpc = "parked" => proc.waitOnDone /\ proc.initState = "done"
    /\ (proc.initState = "debug" \/ proc.status = "debug") =>
          ~proc.seeded /\ ~proc.started

\* a process that found the stored status done has exited through run()
C33_DoneExited ==
    proc.initState = "done" /\ proc.exited /\ proc.via = "run"

\* C34 (as claimed): the page finish of a page whose navigation gave
\* neither a fully loaded response nor a download response records no URL
\* as done.
C34_NotFullyLoadedNeverDone ==
    [][\A w \in Workers :
         (pc[w] = "finish" /\ pc'[w] # "finish" /\ ~data[w].fullLoaded) =>
            done' = done]_vars

\* every worker has left its loop and the crawl was not interrupted
AllLeftOnTheirOwn ==
    (\A w \in Workers : pc[w] = "exited") /\ ~interrupted

\* C35 (as claimed): when every worker has left its loop on its own (in a
\* crawl without a sitemap, whose URLs come from pages only) the queue is
\* empty and no URL is in progress.
C35_NothingQueuedAfterLastExit ==
    (AllLeftOnTheirOwn /\ ~seeds[1].sitemap) =>
        (queue = <<>> /\ pending = {})

\* C36 (as claimed): run() hands status done to setStatusAndExit only when
\* the crawl is finished (nothing queued, nothing in progress) or was
\* stopped on request.
C36_DoneOnlyIfFinishedOrStopped ==
    \A c \in proc.exits :
        (c.via = "run" /\ c.status = "done" /\ c.code = 0) =>
            (procFinished \/ proc.stopped)

C38_NoSeedSitemapSkipped ==
    (\A s \in 1..Len(seeds) : seeds[s].sitemap) =>
        \A s \in 1..Len(seeds) : ingest.reader[s] # "skipped"

\* ------------------------------------------------------------------------
\* the exclusion list of the entry's seed is the one its URL was enqueued
\* under
ExclusionsUnchanged(d) == seeds[d.seedId].exclude = hist.excl[d.url]

\* the dequeued entry was enqueued by queueInScopeUrls (a link or a sitemap
\* URL), that is, after the scope check accepted it
ScopeChecked(d) == hist.origin[d.url].src \in {"link", "sitemap"}

\* C39: an entry that the scope check accepted at enqueue time is accepted
\* again by the worker's recheck at dequeue time (same seed, the stored
\* depth and extraHops) when the seed's exclusion list is the same as at
\* enqueue time
C39_AcceptedAgainAtDequeue ==
    \A w \in Workers :
        (pc[w] = "scope" /\ ScopeChecked(data[w])
            /\ ExclusionsUnchanged(data[w]))
        => isInScope(data[w])

\* C39 witness: a worker rechecks an out-of-scope URL that was enqueued
\* from a link as an extra hop, after an exclusion had been added that has
\* not changed since
C39_ExtraHopRechecked ==
    \E w \in Workers :
        /\ pc[w] = "scope"
        /\ hist.origin[data[w].url].src = "link"
        /\ hist.origin[data[w].url].isOOS
        /\ seeds[data[w].seedId].exclude # <<>>
        /\ ExclusionsUnchanged(data[w])

\* ------------------------------------------------------------------------
\* C40: when a serializeConfig call that wrote its checkpoint file returns
\* (after the push, or after the unlink of the rotation), the file it wrote
\* is on disk
C40_JustWrittenStillOnDisk ==
    [][\A c \in SaveCallers :
         LET f == ckpt.call[c].filename
         IN  /\ (ckpt.call[c].pc = "unlink" /\ ckpt'.call[c].pc = "idle")
                    => f \in ckpt'.disk
             /\ (ckpt.call[c].pc = "write" /\ ckpt'.call[c].pc = "idle"
                    /\ ckpt'.saveStateFiles # ckpt.saveStateFiles)
                    => f \in ckpt'.disk]_vars
====
